---- MODULE Spec2Model ----
(***************************************************************************)
(* defaults2nix: the parse -> Value tree -> render pipeline of main.go.    *)
(*                                                                         *)
(* Text is modelled as a sequence of one-character strings, so that the    *)
(* character level scanners, the escaping and the classifiers are computed *)
(* the way the Go code computes them.  Go indexes from 0; the scanners     *)
(* keep Go's index i and read runes[i + 1].                                *)
(***************************************************************************)
EXTENDS Integers, Sequences, FiniteSets, TLC

VARIABLES
    pc,       \* position in the pipeline
    input,    \* the text handed to the function under study
    doc,      \* the document the input text was written from (NoDoc if raw)
    config,   \* ParseConfig
    sc,       \* the local variables of the running scanner loop
    value,    \* the parsed Value (NilValue before the parse has returned)
    output,   \* the rendered text
    verdict   \* the result of a classifier ("none" before it has run)

vars == <<pc, input, doc, config, sc, value, output, verdict>>

(***************************************************************************)
(* Characters and strings                                                  *)
(***************************************************************************)
Q == "\""
BS == "\\"
NL == "\n"
SP == " "
DOLLAR == "$"

DigitChars == <<"0", "1", "2", "3", "4", "5", "6", "7", "8", "9">>
Digits == {DigitChars[k] : k \in 1..10}
DigitVal(c) == (CHOOSE k \in 1..10 : DigitChars[k] = c) - 1
DigitChar(n) == DigitChars[n + 1]

LowerLetters ==
    <<"a", "b", "c", "d", "e", "f", "g", "h", "i", "j", "k", "l", "m",
      "n", "o", "p", "q", "r", "s", "t", "u", "v", "w", "x", "y", "z">>
UpperLetters ==
    <<"A", "B", "C", "D", "E", "F", "G", "H", "I", "J", "K", "L", "M",
      "N", "O", "P", "Q", "R", "S", "T", "U", "V", "W", "X", "Y", "Z">>

\* unicode.IsSpace, restricted to the characters the model's alphabets hold
WhiteSpace == {" ", "\t", "\n", "\r", "\f"}

SeqsUpTo(S, n) == UNION {[1..k -> S] : k \in 0..n}

\* s[from:to] of Go (0-based, to exclusive); callers guarantee the range
Slice(s, from, to) == SubSeq(s, from + 1, to)

HasPrefix(s, p) == Len(s) >= Len(p) /\ SubSeq(s, 1, Len(p)) = p
HasSuffix(s, p) == Len(s) >= Len(p) /\ SubSeq(s, Len(s) - Len(p) + 1, Len(s)) = p
Contains(s, sub) ==
    \E k \in 0..(Len(s) - Len(sub)) : SubSeq(s, k + 1, k + Len(sub)) = sub

RECURSIVE ReplaceAll(_, _, _)
\* strings.ReplaceAll for a non-empty old: leftmost, non-overlapping
ReplaceAll(s, old, new) ==
    IF Len(s) < Len(old) THEN s
    ELSE IF HasPrefix(s, old)
         THEN new \o ReplaceAll(SubSeq(s, Len(old) + 1, Len(s)), old, new)
         ELSE <<s[1]>> \o ReplaceAll(Tail(s), old, new)

RECURSIVE TrimLeft(_)
TrimLeft(s) == IF s # <<>> /\ s[1] \in WhiteSpace THEN TrimLeft(Tail(s)) ELSE s
RECURSIVE TrimRight(_)
TrimRight(s) ==
    IF s # <<>> /\ s[Len(s)] \in WhiteSpace
    THEN TrimRight(SubSeq(s, 1, Len(s) - 1)) ELSE s
TrimSpace(s) == TrimRight(TrimLeft(s))

TrimSuffix(s, suf) ==
    IF HasSuffix(s, suf) THEN SubSeq(s, 1, Len(s) - Len(suf)) ELSE s

RECURSIVE TrimCharLeft(_, _)
TrimCharLeft(s, c) == IF s # <<>> /\ s[1] = c THEN TrimCharLeft(Tail(s), c) ELSE s
RECURSIVE TrimCharRight(_, _)
TrimCharRight(s, c) ==
    IF s # <<>> /\ s[Len(s)] = c
    THEN TrimCharRight(SubSeq(s, 1, Len(s) - 1), c) ELSE s
\* strings.Trim(s, c) for a one-character cutset
TrimChar(s, c) == TrimCharRight(TrimCharLeft(s, c), c)

\* strings.Split(s, sep) for a one-character sep: the texts before, between
\* and after the occurrences of sep
Split(s, sep) ==
    LET at  == {k \in 1..Len(s) : s[k] = sep}
        n   == Cardinality(at)
        pos == [j \in 0..(n + 1) |->
                  IF j = 0 THEN 0
                  ELSE IF j = n + 1 THEN Len(s) + 1
                  ELSE CHOOSE p \in at : Cardinality({q \in at : q < p}) = j - 1]
    IN  [j \in 1..(n + 1) |-> SubSeq(s, pos[j - 1] + 1, pos[j] - 1)]

RECURSIVE Join(_, _)
Join(parts, sep) ==
    IF parts = <<>> THEN <<>>
    ELSE IF Len(parts) = 1 THEN parts[1]
         ELSE parts[1] \o sep \o Join(Tail(parts), sep)

RECURSIVE Repeat(_, _)
Repeat(s, n) == IF n <= 0 THEN <<>> ELSE s \o Repeat(s, n - 1)

RECURSIVE CountOf(_, _)
\* strings.Count(s, c) for a one-character c
CountOf(s, c) ==
    IF s = <<>> THEN 0
    ELSE (IF s[1] = c THEN 1 ELSE 0) + CountOf(Tail(s), c)

ToLowerChar(c) ==
    IF \E k \in 1..26 : UpperLetters[k] = c
    THEN LowerLetters[CHOOSE k \in 1..26 : UpperLetters[k] = c]
    ELSE c
ToLower(s) == [k \in 1..Len(s) |-> ToLowerChar(s[k])]

(***************************************************************************)
(* strconv                                                                 *)
(***************************************************************************)
AllDigits(s) == \A k \in 1..Len(s) : s[k] \in Digits

HasSign(s) == s # <<>> /\ s[1] \in {"+", "-"}
Unsigned(s) == IF HasSign(s) THEN Tail(s) ELSE s

RECURSIVE StripZeros(_)
\* a digit string without its leading zeros (the empty string for zero)
StripZeros(ds) == IF ds # <<>> /\ ds[1] = "0" THEN StripZeros(Tail(ds)) ELSE ds

RECURSIVE DigitsLeq(_, _)
\* a <= b for digit strings of one length
DigitsLeq(a, b) ==
    IF a = <<>> THEN TRUE
    ELSE IF a[1] = b[1] THEN DigitsLeq(Tail(a), Tail(b))
         ELSE DigitVal(a[1]) < DigitVal(b[1])

\* 1<<63 - 1 and 1<<63, the largest magnitudes of a 64-bit int
MaxInt64Digits ==
    <<"9", "2", "2", "3", "3", "7", "2", "0", "3", "6",
      "8", "5", "4", "7", "7", "5", "8", "0", "7">>
MinInt64Digits ==
    <<"9", "2", "2", "3", "3", "7", "2", "0", "3", "6",
      "8", "5", "4", "7", "7", "5", "8", "0", "8">>

InInt64(neg, mag) ==
    \/ Len(mag) < Len(MaxInt64Digits)
    \/ /\ Len(mag) = Len(MaxInt64Digits)
       /\ DigitsLeq(mag, IF neg THEN MinInt64Digits ELSE MaxInt64Digits)

IsNeg(s) == HasSign(s) /\ s[1] = "-"

\* strconv.Atoi succeeds: an optional sign, one or more decimal digits, and
\* a value that fits the 64-bit int
AtoiOk(s) ==
    /\ Unsigned(s) # <<>>
    /\ AllDigits(Unsigned(s))
    /\ InInt64(IsNeg(s), StripZeros(Unsigned(s)))

\* strconv.Itoa(num) for the num that strconv.Atoi(s) returned: the number
\* is kept as its digit string, which has no width
ItoaOfAtoi(s) ==
    LET mag == StripZeros(Unsigned(s))
    IN  IF mag = <<>> THEN <<"0">>
        ELSE IF IsNeg(s) THEN <<"-">> \o mag ELSE mag

(***************************************************************************)
(* strconv.ParseFloat and the %.15g verb, for decimal text without an      *)
(* exponent, [sign] digits [. digits] with at least one digit, and for the *)
(* words of the special values.  The alphabets of the model leave out the  *)
(* exponent, hexadecimal and underscore forms, the other things ParseFloat *)
(* accepts, and keep every number to at most 15 significant digits, where  *)
(* %.15g prints the decimal that was read.                                 *)
(***************************************************************************)
DotCount(s) == Cardinality({k \in 1..Len(s) : s[k] = "."})
DotPos(s) == CHOOSE k \in 1..Len(s) : s[k] = "."
IntPart(s) == IF DotCount(s) = 0 THEN s ELSE SubSeq(s, 1, DotPos(s) - 1)
FracPart(s) == IF DotCount(s) = 0 THEN <<>> ELSE SubSeq(s, DotPos(s) + 1, Len(s))

\* strconv's special(): inf or infinity in any case, signed or not
IsInfWord(s) ==
    ToLower(Unsigned(s)) \in {<<"i", "n", "f">>, <<"i", "n", "f", "i", "n", "i", "t", "y">>}

\* strconv's special(): nan in any case, without a sign
IsNaNWord(s) == ToLower(s) = <<"n", "a", "n">>

ParseFloatOk(s) ==
    LET u == Unsigned(s)
    IN  \/ IsInfWord(s)
        \/ IsNaNWord(s)
        \/ /\ DotCount(u) <= 1
           /\ AllDigits(IntPart(u))
           /\ AllDigits(FracPart(u))
           /\ Len(IntPart(u)) + Len(FracPart(u)) >= 1

RECURSIVE StripTrailingZeros(_)
StripTrailingZeros(ds) ==
    IF ds # <<>> /\ ds[Len(ds)] = "0"
    THEN StripTrailingZeros(SubSeq(ds, 1, Len(ds) - 1)) ELSE ds

TwoDigits(n) == <<DigitChar(n \div 10), DigitChar(n % 10)>>

\* fmt.Sprintf("%.15g", num) for the num that ParseFloat(s) returned
FormatG15(s) ==
    LET u    == Unsigned(s)
        sign == IF IsNeg(s) THEN <<"-">> ELSE <<>>
        ip   == StripZeros(IntPart(u))
        fp   == StripTrailingZeros(FracPart(u))
        sig  == StripZeros(fp)
        lead == Len(fp) - Len(sig)     \* zeros between the point and the digits
    IN  IF IsNaNWord(s) THEN <<"N", "a", "N">>
        ELSE IF IsInfWord(s)
             THEN (IF IsNeg(s) THEN <<"-">> ELSE <<"+">>) \o <<"I", "n", "f">>
        ELSE IF ip = <<>> /\ fp = <<>> THEN sign \o <<"0">>
        ELSE IF ip # <<>>
             THEN sign \o ip \o (IF fp = <<>> THEN <<>> ELSE <<".">> \o fp)
             ELSE IF lead >= 4      \* decimal exponent below -4: %e style
                  THEN sign \o <<sig[1]>>
                       \o (IF Len(sig) > 1 THEN <<".">> \o Tail(sig) ELSE <<>>)
                       \o <<"e", "-">> \o TwoDigits(lead + 1)
                  ELSE sign \o <<"0", ".">> \o fp

(***************************************************************************)
(* The Value variants (main.go 17-98)                                      *)
(***************************************************************************)
NilValue == [type |-> "nil"]
SkipValue == [type |-> "skip"]
StringValue(s) == [type |-> "string", Value |-> s]
ArrayValue(vs) == [type |-> "array", Values |-> vs]
DictValue(vals, order, cfg) ==
    [type |-> "dict", Values |-> vals, Order |-> order, config |-> cfg]

ParseConfig(dates, state, uuids) ==
    [NoDates |-> dates, NoState |-> state, NoUUIDs |-> uuids]
NoFilters == ParseConfig(FALSE, FALSE, FALSE)

EmptyMap == <<>>
\* values[key] = v on a Go map
MapPut(m, key, v) ==
    [k \in (DOMAIN m) \cup {key} |-> IF k = key THEN v ELSE m[k]]

(***************************************************************************)
(* Key classifiers used while rendering                                    *)
(***************************************************************************)
statePatterns ==
    << <<"N", "S", "W", "i", "n", "d", "o", "w", " ", "F", "r", "a", "m", "e", " ">>,
       <<"N", "S", "S", "p", "l", "i", "t", "V", "i", "e", "w", " ", "S", "u", "b", "v", "i",
             "e", "w", " ", "F", "r", "a", "m", "e", "s", " ">>,
       <<"N", "S", "N", "a", "v", "P", "a", "n", "e", "l", "E", "x", "p", "a", "n", "d", "e",
             "d", "S", "i", "z", "e">>,
       <<"N", "S", "N", "a", "v", "P", "a", "n", "e", "l", "F", "i", "l", "e", "L", "a", "s",
             "t", "L", "i", "s", "t", "M", "o", "d", "e">>,
       <<"N", "S", "N", "a", "v", "P", "a", "n", "e", "l", "F", "i", "l", "e", "L", "i", "s",
             "t", "M", "o", "d", "e">>,
       <<"N", "S", "T", "a", "b", "l", "e", "V", "i", "e", "w", " ", "C", "o", "l", "u", "m",
             "n", "s", " ">>,
       <<"N", "S", "T", "a", "b", "l", "e", "V", "i", "e", "w", " ", "S", "o", "r", "t", " ",
             "O", "r", "d", "e", "r", "i", "n", "g", " ">>,
       <<"N", "S", "T", "a", "b", "l", "e", "V", "i", "e", "w", " ", "S", "u", "p", "p", "o",
             "r", "t", "s", " ">>,
       <<"C", "o", "l", "u", "m", "n", " ", "W", "i", "d", "t", "h">>,
       <<"U", "s", "e", "r", "C", "o", "l", "u", "m", "n", "S", "o", "r", "t", "P", "e", "r",
             "T", "a", "b">>,
       <<"U", "s", "e", "r", "C", "o", "l", "u", "m", "n", "s", "P", "e", "r", "T", "a", "b">>,
       <<"T", "B", " ", "I", "c", "o", "n", " ", "S", "i", "z", "e", " ", "M", "o", "d", "e">>,
       <<"T", "B", " ", "S", "i", "z", "e", " ", "M", "o", "d", "e">>,
       <<"i", "m", "a", "g", "e", " ", "w", "i", "n", "d", "o", "w", " ", "f", "r", "a", "m", "e">>,
       <<"i", "m", "a", "g", "e", " ", "w", "i", "n", "d", "o", "w", " ", "p", "a", "r", "e",
             "n", "t", " ", "f", "r", "a", "m", "e">>,
       <<"N", "S", "P", "r", "e", "f", "e", "r", "e", "n", "c", "e", "s", "C", "o", "n", "t",
             "e", "n", "t", "S", "i", "z", "e">> >>

isUIStateKey(key) ==
    \/ \E k \in 1..Len(statePatterns) : Contains(key, statePatterns[k])
    \/ Contains(key, <<"N", "S", "T", "o", "o", "l", "b", "a", "r", " ", "C", "o", "n", "f",
          "i", "g", "u", "r", "a", "t", "i", "o", "n">>)
    \/ Contains(key, <<"E", "x", "t", "e", "n", "s", "i", "o", "n", "s", "T", "o", "o", "l",
          "b", "a", "r", "C", "o", "n", "f", "i", "g", "u", "r", "a", "t", "i", "o", "n">>)
    \/ Contains(key, <<"C", "r", "o", "p", "R", "e", "c", "t">>)
    \/ /\ HasSuffix(key, <<"F", "r", "a", "m", "e">>)
       /\ (Contains(key, <<"W", "i", "n", "d", "o", "w">>) \/ Contains(key, <<"w", "i", "n",
             "d", "o", "w">>))
    \/ Contains(key, <<"c", "a", "c", "h", "e">>)
    \/ Contains(key, <<"C", "a", "c", "h", "e">>)

IsHexChar(c) ==
    \/ c \in Digits
    \/ c \in {"a", "b", "c", "d", "e", "f"}
    \/ c \in {"A", "B", "C", "D", "E", "F"}

UUIDLen == 36
HyphenAt == {8, 13, 18, 23}

isUUIDString(s) ==
    /\ Len(s) = UUIDLen
    /\ \A p \in HyphenAt : s[p + 1] = "-"
    /\ \A p \in 0..(Len(s) - 1) : p \notin HyphenAt => IsHexChar(s[p + 1])

HashedIDLen == 32

isHashedIDString(s) ==
    /\ Len(s) >= 2
    /\ s[1] = "_"
    /\ Len(s) - 1 = HashedIDLen
    /\ \A p \in 2..Len(s) : IsHexChar(s[p])

\* mutant: only a key that is a UUID from end to end counts
isUUIDKey_WholeKeyOnly(key) == isUUIDString(key)

isUUIDKey(key) ==
    \/ isUUIDString(key)
    \/ /\ Len(key) >= UUIDLen
       /\ \E i \in 0..(Len(key) - UUIDLen) : isUUIDString(Slice(key, i, i + UUIDLen))

timestampPatterns ==
    << <<"t", "i", "m", "e">>, <<"t", "i", "m", "e", "s", "t", "a", "m", "p">>, <<"d", "a",
          "t", "e">>, <<"e", "p", "o", "c", "h">>,
       <<"u", "p", "d", "a", "t", "e", "d">>, <<"c", "r", "e", "a", "t", "e", "d">>, <<"m",
             "o", "d", "i", "f", "i", "e", "d">>, <<"c", "h", "a", "n", "g", "e", "d">>,
       <<"l", "a", "s", "t", "u", "s", "e", "d">>, <<"l", "a", "s", "t", "s", "e", "e",
             "n">>, <<"l", "a", "s", "t", "a", "c", "c", "e", "s", "s">>, <<"l", "a", "s",
             "t", "c", "o", "n", "n", "e", "c", "t", "e", "d">>,
       <<"l", "a", "s", "t", "u", "n", "s", "e", "e", "n">>, <<"l", "a", "s", "t", "v", "i",
             "s", "i", "t">>, <<"l", "a", "s", "t", "o", "p", "e", "n">>, <<"l", "a", "s",
             "t", "l", "a", "u", "n", "c", "h">>,
       <<"a", "c", "c", "e", "s", "s", "e", "d">>, <<"v", "i", "s", "i", "t", "e",
             "d">>, <<"o", "p", "e", "n", "e", "d">>, <<"l", "a", "u", "n", "c", "h", "e", "d">>,
       <<"e", "x", "p", "i", "r", "y">>, <<"e", "x", "p", "i", "r", "e", "s">>, <<"e", "x",
             "p", "i", "r", "e", "d">>, <<"e", "x", "p", "i", "r", "a", "t", "i", "o", "n">>,
       <<"c", "h", "e", "c", "k", "e", "d", "a", "t">>, <<"s", "e", "t", "a", "t">>, <<"s",
             "t", "a", "r", "t", "e", "d", "a", "t">>, <<"e", "n", "d", "e", "d", "a", "t">>,
       <<"s", "i", "n", "c", "e">>, <<"u", "n", "t", "i", "l">>, <<"w", "h", "e",
             "n">>, <<"a", "t">> >>

isTimestampKey(key) ==
    LET lowerKey == ToLower(key)
    IN  \/ \E k \in 1..Len(timestampPatterns) : Contains(lowerKey, timestampPatterns[k])
        \/ /\ Contains(key, <<"@">>)
           /\ \/ Contains(lowerKey, <<"c", "o", "n", "n", "e", "c", "t", "e", "d">>)
              \/ Contains(lowerKey, <<"s", "e", "e", "n">>)
              \/ Contains(lowerKey, <<"a", "c", "c", "e", "s", "s", "e", "d">>)

(***************************************************************************)
(* Rendering: the ToNix methods                                            *)
(***************************************************************************)
TrueLit == <<"t", "r", "u", "e">>
FalseLit == <<"f", "a", "l", "s", "e">>

\* lines 49-51: the token is taken for a bare identifier
IsBareIdentifier(s) ==
    /\ ~Contains(s, <<" ">>)
    /\ ~Contains(s, <<"/">>)
    /\ ~Contains(s, <<".">>)
    /\ ~Contains(s, <<":">>)
    /\ Len(s) > 0
    /\ s # TrueLit
    /\ s # FalseLit

\* lines 56-59: the three replacements, in the code's order
EscapeString(s) ==
    LET e1 == ReplaceAll(s, <<BS>>, <<BS, BS>>)
        e2 == ReplaceAll(e1, <<Q>>, <<BS, Q>>)
    IN  ReplaceAll(e2, <<DOLLAR, "{">>, <<DOLLAR, "'", "'", "{">>)

Quoted(s) == <<Q>> \o s \o <<Q>>

\* mutant: the integer test comes before the two boolean tokens
StringValueToNix_IntegerFirst(s) ==
    IF AtoiOk(s) THEN ItoaOfAtoi(s)
    ELSE IF s = <<"1">> THEN TrueLit
    ELSE IF s = <<"0">> THEN FalseLit
    ELSE IF ParseFloatOk(s) THEN FormatG15(s)
    ELSE IF IsBareIdentifier(s) THEN Quoted(s)
    ELSE Quoted(EscapeString(s))

StringValueToNix(s) ==
    IF s = <<"1">> THEN TrueLit
    ELSE IF s = <<"0">> THEN FalseLit
    ELSE IF AtoiOk(s) THEN ItoaOfAtoi(s)
    ELSE IF ParseFloatOk(s) THEN FormatG15(s)
    ELSE IF IsBareIdentifier(s) THEN Quoted(s)
    ELSE Quoted(EscapeString(s))

\* mutant: four spaces per nesting level
IndentStr_FourSpaces(indent) == Repeat(<<" ", " ", " ", " ">>, indent)

IndentStr(indent) == Repeat(<<" ", " ">>, indent)

nixKeywords ==
    << <<"w", "i", "t", "h">>, <<"l", "e", "t">>, <<"i", "n">>, <<"i", "f">>, <<"t", "h", "e",
          "n">>, <<"e", "l", "s", "e">>, <<"a", "s", "s", "e", "r", "t">>, <<"r", "e", "c">>,
       <<"i", "n", "h", "e", "r", "i", "t">>, <<"o", "r">>, <<"a", "n", "d">>, <<"i", "m",
             "p", "o", "r", "t">>, <<"b", "u", "i", "l", "t", "i", "n", "s">>, <<"t", "h",
             "r", "o", "w">>, <<"a", "b", "o", "r", "t">>,
       <<"t", "r", "u", "e">>, <<"f", "a", "l", "s", "e">>, <<"n", "u", "l", "l">> >>

\* mutant: a dot in the key no longer asks for quotes
needsQuoting_NoDot(key) ==
    \/ AtoiOk(key)
    \/ (Len(key) > 0 /\ key[1] \in Digits)
    \/ \E k \in 1..Len(nixKeywords) : nixKeywords[k] = key
    \/ Contains(key, <<" ">>)
    \/ Contains(key, <<"-">>)
    \/ HasPrefix(key, <<Q>>)

\* lines 157-183
needsQuoting(key) ==
    \/ AtoiOk(key)
    \/ (Len(key) > 0 /\ key[1] \in Digits)
    \/ \E k \in 1..Len(nixKeywords) : nixKeywords[k] = key
    \/ Contains(key, <<" ">>)
    \/ Contains(key, <<"-">>)
    \/ Contains(key, <<".">>)
    \/ HasPrefix(key, <<Q>>)

\* lines 155-187: the key as it is written in the output
NixKey(key) ==
    IF needsQuoting(key) /\ ~HasPrefix(key, <<Q>>)
    THEN Quoted(ReplaceAll(key, <<Q>>, <<BS, Q>>))
    ELSE key

RECURSIVE SetToSeq(_)
SetToSeq(S) ==
    IF S = {} THEN <<>>
    ELSE LET x == CHOOSE y \in S : TRUE IN <<x>> \o SetToSeq(S \ {x})

\* lines 111-117: the keys the render loop ranges over.  The fallback ranges
\* over the Go map, in an order Go leaves open; no Dict of the model has
\* values without an order, so the fallback only ever yields no key.
RenderKeys(d) ==
    IF Len(d.Order) = 0 THEN SetToSeq(DOMAIN d.Values) ELSE d.Order

\* mutant: under a timestamp key only a string value is dropped
EntrySkipped_StringsOnly(d, key) ==
    \/ key \notin DOMAIN d.Values
    \/ d.Values[key].type = "skip"
    \/ (d.config.NoState /\ isUIStateKey(key))
    \/ (d.config.NoUUIDs /\ isUUIDKey(key))
    \/ (d.config.NoDates /\ isTimestampKey(key) /\ d.Values[key].type = "string")

\* lines 120-153: the entry is left out of the output.  Under a timestamp
\* key (140-153) the code looks at the value and then skips the entry on
\* either path.
EntrySkipped(d, key) ==
    \/ key \notin DOMAIN d.Values
    \/ d.Values[key].type = "skip"
    \/ (d.config.NoState /\ isUIStateKey(key))
    \/ (d.config.NoUUIDs /\ isUUIDKey(key))
    \/ (d.config.NoDates /\ isTimestampKey(key))

RECURSIVE ToNix(_, _)

RECURSIVE ArrayParts(_, _)
\* lines 86-88
ArrayParts(validValues, indent) ==
    IF validValues = <<>> THEN <<>>
    ELSE <<IndentStr(indent + 1) \o ToNix(validValues[1], indent + 1)>>
         \o ArrayParts(Tail(validValues), indent)

\* mutant: the Skip elements are not filtered out
ArrayValueToNix_KeepsSkips(a, indent) ==
    LET validValues == a.Values
    IN  IF Len(validValues) = 0 THEN <<"[", "]">>
        ELSE Join(<<  <<"[">>  >> \o ArrayParts(validValues, indent)
                  \o <<IndentStr(indent) \o <<"]">> >>, <<NL>>)

ArrayValueToNix(a, indent) ==
    LET validValues == SelectSeq(a.Values, LAMBDA v : v.type # "skip")
    IN  IF Len(validValues) = 0 THEN <<"[", "]">>
        ELSE Join(<<  <<"[">>  >> \o ArrayParts(validValues, indent)
                  \o <<IndentStr(indent) \o <<"]">> >>, <<NL>>)

RECURSIVE DictParts(_, _, _)
\* lines 119-196: the lines of the entries, for the keys still to visit
DictParts(d, keys, indent) ==
    IF keys = <<>> THEN <<>>
    ELSE LET key == keys[1]
         IN  (IF EntrySkipped(d, key) THEN <<>>
              ELSE << IndentStr(indent + 1) \o NixKey(key) \o <<" ", "=", " ">>
                      \o ToNix(d.Values[key], indent + 1) \o <<";">> >>)
             \o DictParts(d, Tail(keys), indent)

DictValueToNix(d, indent) ==
    IF Cardinality(DOMAIN d.Values) = 0 THEN <<"{", "}">>
    ELSE Join(<<  <<"{">>  >> \o DictParts(d, RenderKeys(d), indent)
              \o <<IndentStr(indent) \o <<"}">> >>, <<NL>>)

ToNix(v, indent) ==
    CASE v.type = "skip" -> <<>>
      [] v.type = "string" -> StringValueToNix(v.Value)
      [] v.type = "array" -> ArrayValueToNix(v, indent)
      [] v.type = "dict" -> DictValueToNix(v, indent)

(***************************************************************************)
(* Value classifiers used while parsing                                    *)
(***************************************************************************)
\* the two-digit number at Go offsets p, p + 1
TwoDigitVal(s, p) == DigitVal(s[p + 1]) * 10 + DigitVal(s[p + 2])
DigitAt(s, p) == s[p + 1] \in Digits

\* lines 396-412 of isDateString: the HH:MM:SS check, FALSE where the code
\* returns false and TRUE where it falls through to "return true"
TimePartOk(s) ==
    LET timepart == Slice(s, 11, 19)
    IN  IF timepart[3] = ":" /\ timepart[6] = ":"
        THEN /\ \A pos \in {0, 1, 3, 4, 6, 7} : DigitAt(timepart, pos)
             /\ TwoDigitVal(timepart, 0) <= 23
             /\ TwoDigitVal(timepart, 3) <= 59
             /\ TwoDigitVal(timepart, 6) <= 59
        ELSE TRUE

isDateString(s) ==
    /\ Len(s) >= 10
    /\ s[5] = "-"
    /\ s[8] = "-"
    /\ \A p \in 0..3 : DigitAt(s, p)
    /\ LET year == TwoDigitVal(s, 0) * 100 + TwoDigitVal(s, 2)
       IN  year >= 1900 /\ year <= 2100
    /\ DigitAt(s, 5)
    /\ DigitAt(s, 6)
    /\ TwoDigitVal(s, 5) >= 1
    /\ TwoDigitVal(s, 5) <= 12
    /\ DigitAt(s, 8)
    /\ DigitAt(s, 9)
    /\ TwoDigitVal(s, 8) >= 1
    /\ TwoDigitVal(s, 8) <= 31
    /\ \/ Len(s) = 10
       \/ /\ Len(s) > 10
          /\ s[11] \in {" ", "T"}
          /\ ((s[11] = " " /\ Len(s) >= 19) => TimePartOk(s))

RECURSIVE FieldsAt(_, _)
\* strings.Fields: the maximal runs of non-space characters
FieldsAt(s, cur) ==
    IF s = <<>> THEN (IF cur = <<>> THEN <<>> ELSE <<cur>>)
    ELSE IF s[1] \in WhiteSpace
         THEN (IF cur = <<>> THEN <<>> ELSE <<cur>>) \o FieldsAt(Tail(s), <<>>)
         ELSE FieldsAt(Tail(s), Append(cur, s[1]))
Fields(s) == FieldsAt(s, <<>>)

isUIStateValue(v) ==
    \/ (HasPrefix(v, <<"{", "{">>) /\ HasSuffix(v, <<"}", "}">>))
    \/ /\ HasPrefix(v, <<"{">>)
       /\ HasSuffix(v, <<"}">>)
       /\ CountOf(v, ",") = 1
       /\ ~Contains(v, <<"=">>)
    \/ LET parts == Fields(v)
       IN  Len(parts) = 8 /\ \A k \in 1..8 : ParseFloatOk(parts[k])
    \/ /\ CountOf(v, ",") = 5
       /\ \/ HasSuffix(TrimSpace(v), <<"N", "O">>)
          \/ HasSuffix(TrimSpace(v), <<"Y", "E", "S">>)

\* lo <= text <= hi for digit strings without leading zeros
DigitsBetween(text, lo, hi) ==
    /\ text # <<>> /\ AllDigits(text)
    /\ Len(text) > Len(lo) \/ (Len(text) = Len(lo) /\ DigitsLeq(lo, text))
    /\ Len(text) < Len(hi) \/ (Len(text) = Len(hi) /\ DigitsLeq(text, hi))

\* mutant: date suppression also drops a number of the Unix or the
\* CFAbsoluteTime range, whatever its key
ValueFiltered_NumbersByShape(text, cfg) ==
    \/ (cfg.NoDates /\ isDateString(text))
    \/ (cfg.NoDates /\ DigitsBetween(text, <<"1", "0", "0", "0", "0", "0", "0", "0", "0">>,
                                     <<"2", "2", "0", "8", "9", "8", "8", "8", "0", "0">>))
    \/ (cfg.NoState /\ isUIStateValue(text))
    \/ (cfg.NoUUIDs /\ (isUUIDString(text) \/ isHashedIDString(text)))

\* lines 569-582 and 588-601: a value-level filter drops the scalar
ValueFiltered(text, cfg) ==
    \/ (cfg.NoDates /\ isDateString(text))
    \/ (cfg.NoState /\ isUIStateValue(text))
    \/ (cfg.NoUUIDs /\ (isUUIDString(text) \/ isHashedIDString(text)))

\* lines 235-252: no part is foreign and exactly two parts are counted
BinaryParts(parts) ==
    LET kept == SelectSeq(parts, LAMBDA p : TrimSpace(p) # <<>>)
        valid(p) == \/ HasPrefix(TrimSpace(p), <<"l", "e", "n", "g", "t", "h", " ", "=">>)
                    \/ HasPrefix(TrimSpace(p), <<"b", "y", "t", "e", "s", " ", "=", " ", "0", "x">>)
    IN  /\ \A k \in 1..Len(kept) : valid(kept[k])
        /\ Len(kept) = 2

isBinaryDataValue(in) ==
    /\ Contains(in, <<"l", "e", "n", "g", "t", "h", " ", "=">>)
    /\ Contains(in, <<"b", "y", "t", "e", "s", " ", "=">>)
    /\ Contains(in, <<"b", "y", "t", "e", "s", " ", "=", " ", "0", "x">>)
    /\ LET content == TrimSpace(Slice(in, 1, Len(in) - 1))
       IN  IF Contains(content, <<";">>)
           THEN BinaryParts(Split(content, ";"))
           ELSE BinaryParts(Split(content, ","))

(***************************************************************************)
(* Parsing.  A Go slice expression out of range panics: the model returns  *)
(* PanicValue where the code would panic, so that "no panic" is a          *)
(* property of the result.                                                 *)
(***************************************************************************)
PanicValue == [type |-> "panic"]
SliceOk(s, from, to) == 0 <= from /\ from <= to /\ to <= Len(s)

\* mutant: the length test of the quoted branch is missing
Dispatch_NoLengthTest(in) ==
    IF HasPrefix(in, <<"(">>) /\ HasSuffix(in, <<")">>) THEN "array"
    ELSE IF HasPrefix(in, <<"{">>) /\ HasSuffix(in, <<"}">>)
         THEN (IF isBinaryDataValue(in) THEN "binary" ELSE "dict")
    ELSE IF HasPrefix(in, <<Q>>) /\ HasSuffix(in, <<Q>>)
         THEN "quoted"
    ELSE "bare"

\* lines 544-563: which branch of parseValueWithConfig takes the trimmed input
Dispatch(in) ==
    IF HasPrefix(in, <<"(">>) /\ HasSuffix(in, <<")">>) THEN "array"
    ELSE IF HasPrefix(in, <<"{">>) /\ HasSuffix(in, <<"}">>)
         THEN (IF isBinaryDataValue(in) THEN "binary" ELSE "dict")
    ELSE IF HasPrefix(in, <<Q>>) /\ HasSuffix(in, <<Q>>) /\ Len(in) > 1
         THEN "quoted"
    ELSE "bare"

\* lines 564-567
Unescape(in) ==
    LET unescaped == Slice(in, 1, Len(in) - 1)
        u1 == ReplaceAll(unescaped, <<BS, Q>>, <<Q>>)
    IN  ReplaceAll(u1, <<BS, BS>>, <<BS>>)

\* lines 562-603: the two scalar branches
ParseScalar(in, kind, cfg) ==
    IF kind = "quoted" /\ ~SliceOk(in, 1, Len(in) - 1) THEN PanicValue
    ELSE LET text == IF kind = "quoted" THEN Unescape(in) ELSE in
         IN  IF ValueFiltered(text, cfg) THEN SkipValue ELSE StringValue(text)

RECURSIVE parseValueWithConfig(_, _)

\* mutant: an element that a filter removes does not join the values
AppendElement_DropsFiltered(values, current, cfg) ==
    LET val == TrimSuffix(TrimSpace(current), <<";">>)
        elem == parseValueWithConfig(val, cfg)
    IN  IF val # <<>> /\ (elem.type # "skip" \/ cfg = NoFilters)
        THEN Append(values, elem)
        ELSE values

\* mutant: the closing `;` of an element is kept
AppendElement_KeepsSemicolon(values, current, cfg) ==
    LET val == TrimSpace(current)
    IN  IF val # <<>> THEN Append(values, parseValueWithConfig(val, cfg))
        ELSE values

\* lines 664-668 and 678-682: the element read so far joins the values
AppendElement(values, current, cfg) ==
    LET val == TrimSuffix(TrimSpace(current), <<";">>)
    IN  IF val # <<>> THEN Append(values, parseValueWithConfig(val, cfg))
        ELSE values

\* lines 611-616: what parseArrayWithConfig does before the scan: it panics,
\* returns the empty array, or enters the loop of parseArrayElementsWithConfig
ArrayBegin(in) ==
    IF ~SliceOk(in, 1, Len(in) - 1) THEN [loop |-> "return", value |-> PanicValue]
    ELSE LET content == TrimSpace(Slice(in, 1, Len(in) - 1))
         IN  IF content = <<>>
             THEN [loop |-> "return", value |-> ArrayValue(<<>>)]
             ELSE [loop |-> "array", runes |-> content, i |-> 0,
                   current |-> <<>>, depth |-> 0, inQuotes |-> FALSE,
                   escape |-> FALSE, values |-> <<>>]

\* mutant: the scanners do not follow the nesting depth
DepthAfter_NeverNested(depth, char, opening, closing) == depth

DepthAfter(depth, char, opening, closing) ==
    IF char \in opening THEN depth + 1
    ELSE IF char \in closing THEN depth - 1
    ELSE depth

\* lines 634-675: one iteration of the loop of parseArrayElementsWithConfig
ArrayStep(st, cfg) ==
    LET char == st.runes[st.i + 1]
        next == [st EXCEPT !.i = st.i + 1]
    IN  IF st.escape
        THEN [next EXCEPT !.current = Append(@, char), !.escape = FALSE]
        ELSE IF char = BS
        THEN [next EXCEPT !.escape = TRUE, !.current = Append(@, char)]
        ELSE IF char = Q
        THEN [next EXCEPT !.inQuotes = ~@, !.current = Append(@, char)]
        ELSE IF ~st.inQuotes
        THEN LET d == DepthAfter(st.depth, char, {"(", "{"}, {")", "}"})
             IN  IF char = "," /\ d = 0
                 THEN [next EXCEPT !.depth = d,
                                   !.values = AppendElement(@, st.current, cfg),
                                   !.current = <<>>]
                 ELSE [next EXCEPT !.depth = d, !.current = Append(@, char)]
        ELSE [next EXCEPT !.current = Append(@, char)]

RECURSIVE ArrayRun(_, _, _, _)
\* the iterations of the loop that begin at the positions lo .. hi-1, one
\* ArrayStep each; st.i >= lo.  The range is halved to keep the evaluation
\* shallow on long inputs.
ArrayRun(st, cfg, lo, hi) ==
    IF st.i >= hi THEN st
    ELSE IF hi - lo = 1 THEN ArrayStep(st, cfg)
    ELSE LET mid == (lo + hi) \div 2
         IN  ArrayRun(ArrayRun(st, cfg, lo, mid), cfg, mid, hi)

\* lines 634-675: for i := 0; i < len(runes); i++
ArrayLoop(st, cfg) == ArrayRun(st, cfg, st.i, Len(st.runes))

\* lines 677-684 and 619: the last element, and the ArrayValue returned
ArrayEnd(st, cfg) == ArrayValue(AppendElement(st.values, st.current, cfg))

parseArrayWithConfig(in, cfg) ==
    LET b == ArrayBegin(in)
    IN  IF b.loop = "return" THEN b.value ELSE ArrayEnd(ArrayLoop(b, cfg), cfg)

\* lines 692-711: what parseDictWithConfig does before the scan
DictBegin(in, cfg) ==
    IF ~SliceOk(in, 1, Len(in) - 1) THEN [loop |-> "return", value |-> PanicValue]
    ELSE LET content == TrimSpace(Slice(in, 1, Len(in) - 1))
         IN  IF content = <<>>
             THEN [loop |-> "return", value |-> DictValue(EmptyMap, <<>>, cfg)]
             ELSE [loop |-> "dict", runes |-> content, i |-> 0,
                   currentKey |-> <<>>, currentValue |-> <<>>, inKey |-> TRUE,
                   depth |-> 0, inQuotes |-> FALSE, escape |-> FALSE,
                   values |-> EmptyMap, order |-> <<>>]

RECURSIVE SkipSpaces(_, _)
\* lines 774-776
SkipSpaces(runes, i) ==
    IF i < Len(runes) /\ runes[i + 1] \in {" ", "\t", "\n", "\r"}
    THEN SkipSpaces(runes, i + 1) ELSE i

\* mutant: the pair joins the mapping but not the ordered key list
CommitPair_ForgetsOrder(st, cfg) ==
    LET valueStr == TrimSpace(st.currentValue)
    IN  [st EXCEPT !.values = MapPut(@, st.currentKey,
                                     parseValueWithConfig(valueStr, cfg))]

\* mutant: the value of a pair is parsed without the configuration
CommitPair_DefaultConfig(st, cfg) ==
    LET valueStr == TrimSpace(st.currentValue)
    IN  [st EXCEPT !.values = MapPut(@, st.currentKey,
                                     parseValueWithConfig(valueStr, NoFilters)),
                   !.order = Append(@, st.currentKey)]

\* lines 763-765 and 796-798: the pair read so far joins the mapping
CommitPair(st, cfg) ==
    LET valueStr == TrimSpace(st.currentValue)
    IN  [st EXCEPT !.values = MapPut(@, st.currentKey,
                                     parseValueWithConfig(valueStr, cfg)),
                   !.order = Append(@, st.currentKey)]

\* lines 713-792: one iteration of the loop of parseDictWithConfig
DictStep(st, cfg) ==
    LET char == st.runes[st.i + 1]
        next == [st EXCEPT !.i = st.i + 1]
    IN  IF st.escape
        THEN [next EXCEPT !.currentValue = Append(@, char), !.escape = FALSE]
        ELSE IF char = BS
        THEN [next EXCEPT !.escape = TRUE, !.currentValue = Append(@, char)]
        ELSE IF char = Q
        THEN IF st.inKey
             THEN [next EXCEPT !.inQuotes = ~@, !.currentKey = Append(@, char)]
             ELSE [next EXCEPT !.inQuotes = ~@, !.currentValue = Append(@, char)]
        ELSE IF ~st.inQuotes
        THEN IF st.inKey
             THEN IF /\ char = "="
                     /\ st.i + 2 < Len(st.runes)
                     /\ st.runes[st.i + 2] = " "
                  THEN [st EXCEPT !.currentKey = TrimSpace(@), !.inKey = FALSE,
                                  !.i = st.i + 2]
                  ELSE [next EXCEPT !.currentKey = Append(@, char)]
             ELSE LET d == DepthAfter(st.depth, char, {"{", "("}, {"}", ")"})
                  IN  IF char = ";" /\ d = 0
                      THEN [CommitPair(st, cfg) EXCEPT
                                !.depth = d,
                                !.currentKey = <<>>,
                                !.currentValue = <<>>,
                                !.inKey = TRUE,
                                !.i = SkipSpaces(st.runes, st.i + 1)]
                      ELSE [next EXCEPT !.depth = d,
                                        !.currentValue = Append(@, char)]
        ELSE IF st.inKey
             THEN [next EXCEPT !.currentKey = Append(@, char)]
             ELSE [next EXCEPT !.currentValue = Append(@, char)]

RECURSIVE DictRun(_, _, _, _)
\* the iterations of the loop that begin at the positions lo .. hi-1, one
\* DictStep each; st.i >= lo
DictRun(st, cfg, lo, hi) ==
    IF st.i >= hi THEN st
    ELSE IF hi - lo = 1 THEN DictStep(st, cfg)
    ELSE LET mid == (lo + hi) \div 2
         IN  DictRun(DictRun(st, cfg, lo, mid), cfg, mid, hi)

\* lines 713-792: for i := 0; i < len(runes); i++
DictLoop(st, cfg) == DictRun(st, cfg, st.i, Len(st.runes))

\* mutant: the pair left without a semicolon is not committed
DictEnd_DropsLastPair(st, cfg) == DictValue(st.values, st.order, cfg)

\* lines 794-801: the pair left without a semicolon, and the DictValue returned
DictEnd(st, cfg) ==
    LET last == IF st.currentKey # <<>> /\ Len(st.currentValue) > 0
                THEN CommitPair(st, cfg) ELSE st
    IN  DictValue(last.values, last.order, cfg)

parseDictWithConfig(in, cfg) ==
    LET b == DictBegin(in, cfg)
    IN  IF b.loop = "return" THEN b.value ELSE DictEnd(DictLoop(b, cfg), cfg)

\* line 558: dictValue.config = config
WithConfig(v, cfg) == IF v.type = "dict" THEN [v EXCEPT !.config = cfg] ELSE v

parseValueWithConfig(input_, cfg) ==
    LET in   == TrimSpace(input_)
        kind == Dispatch(in)
    IN  CASE kind = "array" -> parseArrayWithConfig(in, cfg)
          [] kind = "binary" -> SkipValue
          [] kind = "dict" -> WithConfig(parseDictWithConfig(in, cfg), cfg)
          [] OTHER -> ParseScalar(in, kind, cfg)

\* line 539
parseValue(input_) == parseValueWithConfig(input_, NoFilters)

(***************************************************************************)
(* The pipeline as a state machine.  pc is "start" before the parse,       *)
(* "array" or "dict" while the scanner loop of the top-level container     *)
(* runs, "parsed" once parseValueWithConfig has returned, "done" once the  *)
(* Value has been rendered, "classify" before a classifier has run.        *)
(***************************************************************************)
NoDoc == [kind |-> "none"]
NoScan == [loop |-> "none"]

\* value.ToNix(0), main.go 822 and 831
Render ==
    /\ pc = "parsed"
    /\ value.type \in {"skip", "string", "array", "dict"}
    /\ output' = ToNix(value, 0)
    /\ pc' = "done"
    /\ UNCHANGED <<input, doc, config, sc, value, verdict>>

(***************************************************************************)
(* SpecScalar: StringValue.ToNix on every short token                      *)
(***************************************************************************)
MaxScalarLen == 3

ScalarAlphabet ==
    {"0", "1", "2", "-", "+", ".", "a", " ", Q, BS, DOLLAR, "{", "/"}

\* tokens of the tests that are longer than MaxScalarLen
NamedScalars ==
    { <<"0", "0", "1", "2", "3">>,
      <<"-", "4", "2">>,
      <<"t", "r", "u", "e">>,
      <<"f", "a", "l", "s", "e">>,
      <<"D", "a", "r", "k">>,
      <<"a", DOLLAR, "{", "b", "}">>,
      <<"s", "a", "y", " ", Q, "h", "i", Q>>,
      <<"C", ":", BS, "d">>,
      <<"3", ".", "1", "4", "0">>,
      <<".", "0", "0", "0", "0", "1">> }

ScalarInputs == SeqsUpTo(ScalarAlphabet, MaxScalarLen) \cup NamedScalars

InitScalar ==
    /\ pc = "parsed"
    /\ input = <<>>
    /\ doc = NoDoc
    /\ config = NoFilters
    /\ sc = NoScan
    /\ value \in {StringValue(s) : s \in ScalarInputs}
    /\ output = <<>>
    /\ verdict = "none"

NextScalar == Render

SpecScalar == InitScalar /\ [][NextScalar]_vars

(***************************************************************************)
(* Claims on StringValue.ToNix                                             *)
(***************************************************************************)
RECURSIVE EscapedContent(_)
\* the content with every \ and " backslash-escaped and every ${ made $''{
EscapedContent(s) ==
    IF s = <<>> THEN <<>>
    ELSE IF s[1] = BS THEN <<BS, BS>> \o EscapedContent(Tail(s))
    ELSE IF s[1] = Q THEN <<BS, Q>> \o EscapedContent(Tail(s))
    ELSE IF Len(s) >= 2 /\ s[1] = DOLLAR /\ s[2] = "{"
         THEN <<DOLLAR, "'", "'", "{">> \o EscapedContent(Tail(Tail(s)))
    ELSE <<s[1]>> \o EscapedContent(Tail(s))

RenderedScalar == pc = "done" /\ value.type = "string"
IsStringLiteral(text) == text # <<>> /\ text[1] = Q

\* C2: every scalar rendered as a string literal is the quoted, escaped
\* content: each \ and " backslash-escaped, each ${ rewritten to $''{.
C2_LiteralsAreEscaped ==
    (RenderedScalar /\ IsStringLiteral(output))
        => output = Quoted(EscapedContent(value.Value))

\* an optional minus sign and digits, with no leading zero and no minus zero
IsCanonicalDecimal(text) ==
    \/ text = <<"0">>
    \/ /\ text # <<>>
       /\ text[1] # "+"
       /\ Unsigned(text) # <<>>
       /\ AllDigits(Unsigned(text))
       /\ Unsigned(text)[1] # "0"

SameInteger(a, b) ==
    /\ StripZeros(Unsigned(a)) = StripZeros(Unsigned(b))
    /\ (StripZeros(Unsigned(a)) # <<>> => (IsNeg(a) <=> IsNeg(b)))

\* C6: "1" renders as true, "0" as false, any other integer token as its
\* canonical decimal, and nothing but "1" and "0" renders as a boolean.
C6_TypeInference ==
    RenderedScalar =>
        LET s == value.Value
        IN  /\ (s = <<"1">> => output = TrueLit)
            /\ (s = <<"0">> => output = FalseLit)
            /\ ((AtoiOk(s) /\ s \notin {<<"1">>, <<"0">>})
                    => (IsCanonicalDecimal(output) /\ SameInteger(s, output)))
            /\ (output \in {TrueLit, FalseLit} => s \in {<<"1">>, <<"0">>})

C6_Witness ==
    /\ RenderedScalar
    /\ value.Value = <<"0", "0", "1", "2", "3">>
    /\ output = <<"1", "2", "3">>

(***************************************************************************)
(* The parse, whole and step by step                                       *)
(***************************************************************************)
RECURSIVE HasPanic(_)
HasPanic(v) ==
    CASE v.type = "panic" -> TRUE
      [] v.type = "array" -> \E k \in 1..Len(v.Values) : HasPanic(v.Values[k])
      [] v.type = "dict" -> \E k \in DOMAIN v.Values : HasPanic(v.Values[k])
      [] OTHER -> FALSE

\* parseValueWithConfig(inputStr, config), main.go 821 and 830
Parse ==
    /\ pc = "start"
    /\ value' = parseValueWithConfig(input, config)
    /\ pc' = "parsed"
    /\ UNCHANGED <<input, doc, config, sc, output, verdict>>

\* parseValueWithConfig up to the first iteration of the scanner loop of a
\* top-level array or dictionary; any other input is parsed at once
Start ==
    /\ pc = "start"
    /\ LET in   == TrimSpace(input)
           kind == Dispatch(in)
           b    == IF kind = "array" THEN ArrayBegin(in) ELSE DictBegin(in, config)
       IN  IF kind \in {"array", "dict"}
           THEN IF b.loop = "return"
                THEN /\ value' = WithConfig(b.value, config)
                     /\ pc' = "parsed"
                     /\ sc' = sc
                ELSE /\ sc' = b
                     /\ pc' = kind
                     /\ value' = value
           ELSE /\ value' = parseValueWithConfig(input, config)
                /\ pc' = "parsed"
                /\ sc' = sc
    /\ UNCHANGED <<input, doc, config, output, verdict>>

ArrayScanStep ==
    /\ pc = "array"
    /\ sc.i < Len(sc.runes)
    /\ sc' = ArrayStep(sc, config)
    /\ UNCHANGED <<pc, input, doc, config, value, output, verdict>>

ArrayFinish ==
    /\ pc = "array"
    /\ sc.i >= Len(sc.runes)
    /\ value' = ArrayEnd(sc, config)
    /\ pc' = "parsed"
    /\ UNCHANGED <<input, doc, config, sc, output, verdict>>

DictScanStep ==
    /\ pc = "dict"
    /\ sc.i < Len(sc.runes)
    /\ sc' = DictStep(sc, config)
    /\ UNCHANGED <<pc, input, doc, config, value, output, verdict>>

DictFinish ==
    /\ pc = "dict"
    /\ sc.i >= Len(sc.runes)
    /\ value' = WithConfig(DictEnd(sc, config), config)
    /\ pc' = "parsed"
    /\ UNCHANGED <<input, doc, config, sc, output, verdict>>

(***************************************************************************)
(* SpecScan: every short text, well formed or not, inside a few frames     *)
(***************************************************************************)
MaxRawLen == 3

RawAlphabet == {"{", "}", "(", ")", "=", ";", ",", Q, BS, " ", "a"}

\* what is written before and after the text
Frames ==
    { << <<>>, <<>> >>,
      << <<"{">>, <<"}">> >>,
      << <<"(">>, <<")">> >>,
      << <<"{", "a", " ", "=", " ">>, <<";", "}">> >>,
      << <<"{", "a", " ", "=", " ">>, <<>> >>,
      << <<"(", "a", ",", " ">>, <<")">> >> }

RawInputs ==
    {f[1] \o s \o f[2] : f \in Frames, s \in SeqsUpTo(RawAlphabet, MaxRawLen)}

InitScan ==
    /\ pc = "start"
    /\ input \in RawInputs
    /\ doc = NoDoc
    /\ config = NoFilters
    /\ sc = NoScan
    /\ value = NilValue
    /\ output = <<>>
    /\ verdict = "none"

NextScan ==
    \/ Start
    \/ ArrayScanStep
    \/ ArrayFinish
    \/ DictScanStep
    \/ DictFinish
    \/ Render

SpecScan == InitScan /\ [][NextScan]_vars

(***************************************************************************)
(* Claims on the parse of arbitrary text                                   *)
(***************************************************************************)
IsValue(v) == v.type \in {"skip", "string", "array", "dict"}

\* the next iteration of the running scanner loop moves the index forward,
\* and not past the end of the text
LoopAdvances ==
    /\ (pc = "array" /\ sc.i < Len(sc.runes)) =>
            LET n == ArrayStep(sc, config)
            IN  n.i > sc.i /\ n.i <= Len(sc.runes)
    /\ (pc = "dict" /\ sc.i < Len(sc.runes)) =>
            LET n == DictStep(sc, config)
            IN  n.i > sc.i /\ n.i <= Len(sc.runes)

\* C3: for every input text the parse returns a Value (never nil, never a
\* panic) and parse and rendering terminate: every iteration of a scanner
\* loop moves its index forward, and a returned Value is always rendered.
C3_NeverFails ==
    /\ pc \in {"start", "array", "dict", "parsed", "done"}
    /\ pc \in {"parsed", "done"} => (IsValue(value) /\ ~HasPanic(value))
    /\ LoopAdvances

\* a dictionary with an unterminated quote was scanned to its end, parsed
\* and rendered
C3_Witness ==
    /\ pc = "done"
    /\ input = <<"{", "a", " ", "=", " ", Q, ";", "}">>
    /\ sc # NoScan
    /\ sc.i = Len(sc.runes)
    /\ value.type = "dict"

(***************************************************************************)
(* SpecKey: DictValue.ToNix on a one-entry Dict, for every short key       *)
(***************************************************************************)
MaxKeyLen == 3

KeyAlphabet == {"o", "r", "i", "n", "f", "1", "-", "+", " ", ".", Q, "_"}

\* keys of the tests and of the README that are longer than MaxKeyLen
NamedKeys ==
    { <<"w", "i", "t", "h">>, <<"n", "u", "l", "l">>, <<"i", "n", "h", "e", "r", "i",
          "t">>, <<"b", "u", "i", "l", "t", "i", "n", "s">>, <<"s", "i", "m", "p", "l", "e",
          "K", "e", "y">>,
      <<"c", "o", "m", ".", "a", "p", "p", "l", "e", ".", "S", "a", "f", "a", "r",
            "i">>, <<"k", "e", "y", " ", "w", "i", "t", "h", " ", "s", "p", "a", "c", "e",
            "s">>, <<"k", "e", "y", "-", "w", "i", "t", "h", "-", "d", "a", "s", "h", "e", "s">>,
      <<"1", "2", "3", "a", "b", "c">>, <<"-", "1", "2", "3">>, <<"o", "r", "a", "n", "g", "e">> }

KeyInputs == SeqsUpTo(KeyAlphabet, MaxKeyLen) \cup NamedKeys

EntryValue == StringValue(<<"v">>)
OneEntryDict(key) == DictValue(MapPut(EmptyMap, key, EntryValue), <<key>>, NoFilters)

InitKey ==
    /\ pc = "parsed"
    /\ input = <<>>
    /\ doc = NoDoc
    /\ config = NoFilters
    /\ sc = NoScan
    /\ value \in {OneEntryDict(key) : key \in KeyInputs}
    /\ output = <<>>
    /\ verdict = "none"

NextKey == Render

SpecKey == InitKey /\ [][NextKey]_vars

(***************************************************************************)
(* Claims on the keys DictValue.ToNix writes                               *)
(***************************************************************************)
LineHead == <<"{", NL, " ", " ">>
LineTail == <<" ", "=", " ", Q, "v", Q, ";", NL, "}">>

RenderedOneEntry ==
    /\ pc = "done"
    /\ value.type = "dict"
    /\ Len(value.Order) = 1
    /\ value.Values[value.Order[1]] = EntryValue

\* the text between the indentation and " = " of the only entry line
EmittedKey == SubSeq(output, Len(LineHead) + 1, Len(output) - Len(LineTail))

ReservedWords == {nixKeywords[k] : k \in 1..Len(nixKeywords)}

\* the four reasons for quoting a key that the claim gives
ShouldBeQuoted(key) ==
    \/ AtoiOk(key)
    \/ (key # <<>> /\ key[1] \in Digits)
    \/ key \in ReservedWords
    \/ \E k \in 1..Len(key) : key[k] \in {" ", "-", "."}

\* text is key between double quotes, the quotes inside key escaped
IsWrapped(text, key) ==
    /\ Len(text) >= Len(key) + 2
    /\ text[1] = Q
    /\ text[Len(text)] = Q
    /\ ReplaceAll(SubSeq(text, 2, Len(text) - 1), <<BS, Q>>, <<Q>>) = key

\* C10: a key that does not begin with a quote is written between double
\* quotes iff it parses as an integer, starts with a digit, is one of the 18
\* reserved words or contains a space, - or .; otherwise it is written bare;
\* a key that begins with a quote is written unchanged.
C10_KeyQuoting ==
    RenderedOneEntry =>
        LET key == value.Order[1]
        IN  /\ HasPrefix(output, LineHead)
            /\ HasSuffix(output, LineTail)
            /\ Cardinality(ReservedWords) = 18
            /\ IF HasPrefix(key, <<Q>>) THEN EmittedKey = key
               ELSE IF ShouldBeQuoted(key) THEN IsWrapped(EmittedKey, key)
               ELSE EmittedKey = key

C10_Witness ==
    /\ RenderedOneEntry
    /\ value.Order[1] = <<"o", "r">>
    /\ EmittedKey = <<Q, "o", "r", Q>>

(***************************************************************************)
(* SpecBinary: isBinaryDataValue, then parseValue, on brace-delimited      *)
(* texts put together from a few kinds of entry                            *)
(***************************************************************************)
MaxParts == 3

LengthEntry == <<"l", "e", "n", "g", "t", "h", " ", "=", " ", "4">>
BytesEntry == <<"b", "y", "t", "e", "s", " ", "=", " ", "0", "x", "1", "a", " ", "2", "b">>

EntryPool ==
    { LengthEntry,
      BytesEntry,
      <<"b", "y", "t", "e", "s", " ", "=", " ", "\\", "\"", "n", "o", " ", "h", "e", "x",
            "\\", "\"">>,
      <<"e", "x", "t", "r", "a", " ", "=", " ", "1">>,
      <<"l", "e", "n", "g", "t", "h", " ", "=", " ", "b", "y", "t", "e", "s", " ", "=", " ",
            "0", "x", "1", "a">>,
      <<>> }

BraceText(parts, sep, trail) ==
    <<"{">> \o Join(parts, <<sep, " ">>) \o trail \o <<"}">>

BraceTexts ==
    { BraceText(parts, sep, trail) :
        parts \in UNION {[1..k -> EntryPool] : k \in 1..MaxParts},
        sep \in {";", ","},
        trail \in {<<>>, <<";">>, <<",">>} }

\* isBinaryDataValue(input), as the tests call it
Classify ==
    /\ pc = "classify"
    /\ verdict' = IF isBinaryDataValue(input) THEN "true" ELSE "false"
    /\ pc' = "start"
    /\ UNCHANGED <<input, doc, config, sc, value, output>>

InitBinary ==
    /\ pc = "classify"
    /\ input \in BraceTexts
    /\ doc = NoDoc
    /\ config = NoFilters
    /\ sc = NoScan
    /\ value = NilValue
    /\ output = <<>>
    /\ verdict = "none"

NextBinary ==
    \/ Classify
    \/ Parse
    \/ Render

SpecBinary == InitBinary /\ [][NextBinary]_vars

(***************************************************************************)
(* Claims on the binary-blob detector                                      *)
(***************************************************************************)
\* the non-empty trimmed parts between the braces, split on ; if there is
\* one and on , if not
NonEmptyParts(text) ==
    LET content == SubSeq(text, 2, Len(text) - 1)
        sep     == IF \E k \in 1..Len(content) : content[k] = ";" THEN ";" ELSE ","
        trimmed == [k \in 1..Len(Split(content, sep)) |->
                        TrimSpace(Split(content, sep)[k])]
    IN  SelectSeq(trimmed, LAMBDA p : p # <<>>)

IsLengthEntry(p) == HasPrefix(p, <<"l", "e", "n", "g", "t", "h", " ", "=">>)
IsBytesEntry(p) == HasPrefix(p, <<"b", "y", "t", "e", "s", " ", "=", " ", "0", "x">>)

OneLengthOneBytes(text) ==
    LET ps == NonEmptyParts(text)
    IN  /\ Len(ps) = 2
        /\ \/ (IsLengthEntry(ps[1]) /\ IsBytesEntry(ps[2]))
           \/ (IsBytesEntry(ps[1]) /\ IsLengthEntry(ps[2]))

\* C8: isBinaryDataValue is true only for a text whose non-empty parts are
\* exactly two, one a length entry and the other a bytes entry.
C8_ExactlyLengthAndBytes ==
    (verdict = "true") => OneLengthOneBytes(input)

\* C9: parseValue returns Skip for a blob of one length entry and one bytes
\* entry separated by a comma, with or without a ; after the last entry.
CommaBlobs ==
    { BraceText(<<LengthEntry, BytesEntry>>, ",", trail) : trail \in {<<>>, <<";">>} }

C9_CommaBlobIsSkipped ==
    (pc \in {"parsed", "done"} /\ input \in CommaBlobs) => value = SkipValue


(***************************************************************************)
(* SpecConvert: convertDefaultsWithConfig on the text `defaults read`      *)
(* prints for a property list                                              *)
(***************************************************************************)
\* A property list, before it is printed: bare and quoted strings, binary
\* blobs, arrays and dictionaries (keys in the order they are printed, the
\* k-th value belonging to the k-th key).
Bare(t) == [kind |-> "bare", text |-> t]
QuotedText(t) == [kind |-> "quoted", text |-> t]
Blob(sep) == [kind |-> "blob", sep |-> sep]
ArrayDoc(elems) == [kind |-> "array", elems |-> elems]
DictDoc(keys, vals) == [kind |-> "dict", keys |-> keys, vals |-> vals]

\* the largest number of entries of the outermost container
MaxEntries == 2

KeyA == <<"a">>
KeyB == <<"b">>
KeyC == <<"c">>
KeySpaced == <<"k", " ", "l">>

\* the values an entry of the outermost container can have
InnerDocs ==
    { Bare(<<"a">>),
      Bare(<<"1">>),
      QuotedText(<<"q", Q, "r", ";", " ", "x">>),
      Blob(";"),
      Blob(","),
      ArrayDoc(<<>>),
      ArrayDoc(<<Blob(",")>>),
      ArrayDoc(<<Bare(<<"a">>), Blob(","), QuotedText(<<"x", ",", " ", "y">>)>>),
      ArrayDoc(<<DictDoc(<<KeyB>>, <<Bare(<<"1">>)>>)>>),
      DictDoc(<<>>, <<>>),
      DictDoc(<<KeyB>>, <<Blob(";")>>),
      DictDoc(<<KeyB, KeyC, KeySpaced>>,
              <<Bare(<<"1">>), Blob(";"), ArrayDoc(<<Bare(<<"a">>), Bare(<<"1">>)>>)>>) }

\* the k-th key of the outermost dictionary: a, "k l", c, cc, ...
OuterKey(k) ==
    IF k = 1 THEN KeyA ELSE IF k = 2 THEN KeySpaced ELSE Repeat(KeyC, k - 2)

\* the keys of an outermost dictionary of n entries: all distinct, or the
\* last entry written under the key of the first
KeyRows(n) ==
    {[k \in 1..n |-> OuterKey(k)]}
    \cup (IF n >= 2
          THEN {[k \in 1..n |-> IF k = n THEN OuterKey(1) ELSE OuterKey(k)]}
          ELSE {})

Docs ==
    UNION { {DictDoc(ks, vs) : ks \in KeyRows(n), vs \in [1..n -> InnerDocs]}
            \cup {ArrayDoc(vs) : vs \in [1..n -> InnerDocs]} : n \in 0..MaxEntries }

Layouts == {"compact", "pretty"}

\* `defaults read` quotes a string that is not a plain word and escapes the
\* backslashes and quotes inside it
WriteString(t) ==
    Quoted(ReplaceAll(ReplaceAll(t, <<BS>>, <<BS, BS>>), <<Q>>, <<BS, Q>>))

WriteKey(k) == IF Contains(k, <<" ">>) THEN WriteString(k) ELSE k

WriteBlob(sep) ==
    IF sep = ";"
    THEN <<"{">> \o LengthEntry \o <<";", " ">> \o BytesEntry \o <<";", "}">>
    ELSE <<"{">> \o LengthEntry \o <<",", " ">> \o BytesEntry \o <<"}">>

PlistIndent(level) == Repeat(<<" ", " ", " ", " ">>, level)

RECURSIVE WriteDoc(_, _, _)
RECURSIVE WriteElems(_, _, _)
\* the elements of an array, each but the last followed by a comma
WriteElems(elems, layout, level) ==
    IF elems = <<>> THEN <<>>
    ELSE LET one  == WriteDoc(elems[1], layout, level)
             sep  == IF Len(elems) > 1 THEN <<",">> ELSE <<>>
             gap  == IF Len(elems) > 1 /\ layout = "compact" THEN <<" ">> ELSE <<>>
         IN  (IF layout = "pretty"
              THEN PlistIndent(level) \o one \o sep \o <<NL>>
              ELSE one \o sep \o gap)
             \o WriteElems(Tail(elems), layout, level)

RECURSIVE WriteEntries(_, _, _, _)
\* the entries of a dictionary, each closed by a semicolon
WriteEntries(keys, vals, layout, level) ==
    IF keys = <<>> THEN <<>>
    ELSE LET one == WriteKey(keys[1]) \o <<" ", "=", " ">>
                    \o WriteDoc(vals[1], layout, level) \o <<";">>
             gap == IF Len(keys) > 1 /\ layout = "compact" THEN <<" ">> ELSE <<>>
         IN  (IF layout = "pretty"
              THEN PlistIndent(level) \o one \o <<NL>>
              ELSE one \o gap)
             \o WriteEntries(Tail(keys), Tail(vals), layout, level)

\* the text of a property list: on one line, or as `defaults read` lays it
\* out, one entry per line and four spaces per level
WriteDoc(d, layout, level) ==
    CASE d.kind = "bare" -> d.text
      [] d.kind = "quoted" -> WriteString(d.text)
      [] d.kind = "blob" -> WriteBlob(d.sep)
      [] d.kind = "array" ->
           <<"(">> \o (IF layout = "pretty" THEN <<NL>> ELSE <<>>)
           \o WriteElems(d.elems, layout, level + 1)
           \o (IF layout = "pretty" THEN PlistIndent(level) ELSE <<>>) \o <<")">>
      [] d.kind = "dict" ->
           <<"{">> \o (IF layout = "pretty" THEN <<NL>> ELSE <<>>)
           \o WriteEntries(d.keys, d.vals, layout, level + 1)
           \o (IF layout = "pretty" THEN PlistIndent(level) ELSE <<>>) \o <<"}">>

\* main.go 809-814: bufio.Scanner hands out the lines of the input without
\* their line ends (an empty last line is not a line), and the loop writes
\* each of them followed by "\n"
ScannedLines(text) ==
    LET parts == Split(text, NL)
    IN  IF parts # <<>> /\ parts[Len(parts)] = <<>>
        THEN SubSeq(parts, 1, Len(parts) - 1)
        ELSE parts

RECURSIVE WriteLines(_)
WriteLines(lines) ==
    IF lines = <<>> THEN <<>> ELSE lines[1] \o <<NL>> \o WriteLines(Tail(lines))

\* main.go 820: inputStr
ReadInput(text) == TrimSpace(WriteLines(ScannedLines(text)))

InitConvert ==
    /\ pc = "start"
    /\ \E d \in Docs, layout \in Layouts :
           /\ doc = d
           /\ input = ReadInput(WriteDoc(d, layout, 0) \o <<NL>>)
    /\ config = NoFilters
    /\ sc = NoScan
    /\ value = NilValue
    /\ output = <<>>
    /\ verdict = "none"

NextConvert ==
    \/ Parse
    \/ Render

SpecConvert == InitConvert /\ [][NextConvert]_vars


(***************************************************************************)
(* Claims on the conversion of a property list                             *)
(***************************************************************************)
IsBlob(d) == d.kind = "blob"
Children(d) ==
    IF d.kind = "array" THEN d.elems ELSE IF d.kind = "dict" THEN d.vals ELSE <<>>

NoRepeat(seq) == \A j, k \in 1..Len(seq) : j # k => seq[j] # seq[k]

RECURSIVE DistinctKeys(_)
\* no dictionary of the property list writes a key twice
DistinctKeys(d) ==
    /\ d.kind = "dict" => NoRepeat(d.keys)
    /\ \A k \in 1..Len(Children(d)) : DistinctKeys(Children(d)[k])

RECURSIVE ShownEverywhere(_)
\* every array and dictionary of the property list holds at least one value
\* that is not a binary blob
ShownEverywhere(d) ==
    /\ d.kind \in {"array", "dict"} =>
           \E k \in 1..Len(Children(d)) : ~IsBlob(Children(d)[k])
    /\ \A k \in 1..Len(Children(d)) : ShownEverywhere(Children(d)[k])

Spaces(n) == [k \in 1..n |-> " "]

\* the lines of a value that continue the line `prefix` and end in `suffix`
Decorate(lines, prefix, suffix) ==
    [k \in 1..Len(lines) |->
        (IF k = 1 THEN prefix ELSE <<>>) \o lines[k]
        \o (IF k = Len(lines) THEN suffix ELSE <<>>)]

RECURSIVE ExpectedLines(_, _)
RECURSIVE ExpectedElems(_, _)
\* one element per line, blobs left out
ExpectedElems(elems, level) ==
    IF elems = <<>> THEN <<>>
    ELSE (IF IsBlob(elems[1]) THEN <<>>
          ELSE Decorate(ExpectedLines(elems[1], level), Spaces(2 * level), <<>>))
         \o ExpectedElems(Tail(elems), level)

RECURSIVE ExpectedEntries(_, _, _)
\* one `key = value;` line per entry whose value is not a blob, in source order
ExpectedEntries(keys, vals, level) ==
    IF keys = <<>> THEN <<>>
    ELSE (IF IsBlob(vals[1]) THEN <<>>
          ELSE Decorate(ExpectedLines(vals[1], level),
                        Spaces(2 * level) \o WriteKey(keys[1]) \o <<" ", "=", " ">>,
                        <<";">>))
         \o ExpectedEntries(Tail(keys), Tail(vals), level)

\* the lines the claim describes for a value opened on a line of the given
\* nesting level; the first line continues the line that opens the value
ExpectedLines(d, level) ==
    CASE d.kind \in {"bare", "quoted"} -> << StringValueToNix(d.text) >>
      [] d.kind = "array" ->
           << <<"[">> >> \o ExpectedElems(d.elems, level + 1)
           \o << Spaces(2 * level) \o <<"]">> >>
      [] d.kind = "dict" ->
           << <<"{">> >> \o ExpectedEntries(d.keys, d.vals, level + 1)
           \o << Spaces(2 * level) \o <<"}">> >>

ExpectedOutput(d) == Join(ExpectedLines(d, 0), <<NL>>)

\* the case of C1: a dictionary with distinct keys at every level, every
\* container of which shows at least one entry
WellFormedDict == doc.kind = "dict" /\ DistinctKeys(doc) /\ ShownEverywhere(doc)

\* C1: with no filters, the conversion of a well-formed dictionary with
\* distinct keys is exactly one `key = value;` line per entry that is not a
\* binary blob, in source order, two spaces per nesting level, arrays as `[`,
\* one element per line, and `]` aligned with the line that opened them
C1_OneLinePerEntry ==
    (pc = "done" /\ config = NoFilters /\ WellFormedDict)
        => output = ExpectedOutput(doc)

\* a two-entry dictionary printed by `defaults read` on several lines, whose
\* second entry is a dictionary holding a scalar, a blob and an array
C1_Witness ==
    /\ pc = "done"
    /\ WellFormedDict
    /\ Len(doc.keys) = 2
    /\ doc.vals[1] = Bare(<<"1">>)
    /\ doc.vals[2].kind = "dict"
    /\ Len(doc.vals[2].keys) = 3
    /\ Contains(input, <<NL>>)
    /\ output = ExpectedOutput(doc)

AllSkipDict(v) ==
    /\ v.type = "dict"
    /\ DOMAIN v.Values # {}
    /\ \A k \in DOMAIN v.Values : v.Values[k].type = "skip"

AllSkipArray(v) ==
    /\ v.type = "array"
    /\ v.Values # <<>>
    /\ \A k \in 1..Len(v.Values) : v.Values[k].type = "skip"

\* C4: a Dict all of whose entries are Skip renders as {} and an Array all
\* of whose elements are Skip renders as []
C4_OnlySkipsRenderEmpty ==
    pc = "done" =>
        /\ AllSkipDict(value) => output = <<"{", "}">>
        /\ AllSkipArray(value) => output = <<"[", "]">>

HoldsBoth(v) ==
    \/ /\ v.type = "dict"
       /\ \E k \in DOMAIN v.Values : v.Values[k].type = "skip"
       /\ \E k \in DOMAIN v.Values : v.Values[k].type # "skip"
    \/ /\ v.type = "array"
       /\ \E k \in 1..Len(v.Values) : v.Values[k].type = "skip"
       /\ \E k \in 1..Len(v.Values) : v.Values[k].type # "skip"

RECURSIVE WithoutSkips(_)
\* the Value with the Skip entries of every container that holds both kinds
\* taken out, keys and elements otherwise as they were
WithoutSkips(v) ==
    IF v.type = "dict"
    THEN LET kept == IF HoldsBoth(v)
                     THEN {k \in DOMAIN v.Values : v.Values[k].type # "skip"}
                     ELSE DOMAIN v.Values
         IN  [v EXCEPT !.Values = [k \in kept |-> WithoutSkips(v.Values[k])],
                       !.Order = SelectSeq(v.Order, LAMBDA k : k \in kept)]
    ELSE IF v.type = "array"
    THEN LET kept == IF HoldsBoth(v)
                     THEN SelectSeq(v.Values, LAMBDA e : e.type # "skip")
                     ELSE v.Values
         IN  [v EXCEPT !.Values = [k \in 1..Len(kept) |-> WithoutSkips(kept[k])]]
    ELSE v

\* the number of lines of the text that show an entry or an element of the
\* outermost container: two spaces, then neither a space nor a closing bracket
OuterLines(text) ==
    LET lines == Split(text, NL)
    IN  Cardinality({k \in 1..Len(lines) :
            /\ Len(lines[k]) >= 3
            /\ lines[k][1] = " " /\ lines[k][2] = " "
            /\ lines[k][3] \notin {" ", "]", "}"}})

Shown(v) ==
    IF v.type = "dict"
    THEN Len(SelectSeq(v.Order, LAMBDA k : v.Values[k].type # "skip"))
    ELSE Len(SelectSeq(v.Values, LAMBDA e : e.type # "skip"))

BlankLine(line) == \A k \in 1..Len(line) : line[k] = " "

\* C5: a Dict or Array holding both Skip and non-Skip entries renders as the
\* same container without its Skip entries does: one line per non-Skip
\* entry, in the original order, and no empty line or valueless entry where
\* a Skip entry was
C5_SkipsLeaveNoTrace ==
    (pc = "done" /\ HoldsBoth(value)) =>
        /\ output = ToNix(WithoutSkips(value), 0)
        /\ OuterLines(output) = Shown(value)
        /\ \A k \in 1..Len(Split(output, NL)) : ~BlankLine(Split(output, NL)[k])
        /\ ~Contains(output, <<"=", " ", ";">>)

\* an array of three elements, the middle one a blob, was rendered on four
\* lines
C5_Witness ==
    /\ pc = "done"
    /\ value.type = "array"
    /\ Len(value.Values) = 2
    /\ value.Values[1].type = "array"
    /\ HoldsBoth(value.Values[1])
    /\ value.Values[2].type = "skip"
    /\ HoldsBoth(value)
    /\ OuterLines(output) = 1

\* the number of lines of the output that open the entry of the key
LinesOfKey(key) ==
    LET lines == Split(output, NL)
        head  == <<" ", " ">> \o key \o <<" ", "=", " ">>
    IN  Cardinality({k \in 1..Len(lines) : HasPrefix(lines[k], head)})

\* C7: when a key is written twice at one nesting level, the parsed Dict
\* holds it once (no duplicate in the ordered key list, which is as long as
\* the mapping) and the output has exactly one line for it
C7_DuplicateKeyHeldOnce ==
    (/\ pc \in {"parsed", "done"}
     /\ doc.kind = "dict"
     /\ ~NoRepeat(doc.keys)
     /\ value.type = "dict") =>
        /\ NoRepeat(value.Order)
        /\ Len(value.Order) = Cardinality(DOMAIN value.Values)
        /\ pc = "done" => \A k \in 1..Len(doc.keys) : LinesOfKey(doc.keys[k]) <= 1


(***************************************************************************)
(* SpecDate: isDateString on date-shaped texts, and the conversion of such *)
(* a text with and without date suppression                                *)
(***************************************************************************)
DatesOnly == ParseConfig(TRUE, FALSE, FALSE)

Years == { <<"1", "8", "9", "9">>, <<"1", "9", "0", "0">>, <<"2", "0", "2", "5">>, <<"2", "1",
      "0", "0">>, <<"2", "1", "0", "1">>, <<"2", "0", "a", "5">> }
Months == { <<"0", "0">>, <<"0", "1">>, <<"1", "2">>, <<"1", "3">>, <<"1", "a">> }
Days == { <<"0", "0">>, <<"0", "1">>, <<"3", "1">>, <<"3", "2">> }
Hours == { <<"0", "0">>, <<"2", "3">>, <<"2", "4">>, <<"2", "x">> }
Minutes == { <<"0", "0">>, <<"5", "9">>, <<"6", "0">> }
Seconds == { <<"5", "9">>, <<"6", "0">>, <<"5">> }

\* what follows the day: nothing, a lone character, or a separator and a
\* time, with or without a zone
DateTails ==
    { <<>>, <<" ">>, <<"T">>, <<"x">>, <<" ", "n", "o", "o", "n">>, <<"T", "1", "2">> }
    \cup { <<sep>> \o h \o <<c1>> \o m \o <<":">> \o s \o zone :
             sep \in {" ", "T", "_"}, h \in Hours, c1 \in {":", "."},
             m \in Minutes, s \in Seconds, zone \in {<<>>, <<" ", "+", "0", "0", "0",
                   "0">>, <<"Z">>} }

\* every date with a few tails, and a few dates with every tail
DateTexts ==
    { y \o <<d1>> \o m \o <<"-">> \o d \o tail :
        y \in Years, d1 \in {"-", "/"}, m \in Months, d \in Days,
        tail \in {<<>>, <<" ">>, <<"T">>, <<"x">>} }
    \cup { y \o <<"-">> \o m \o <<"-">> \o d \o tail :
             y \in {<<"2", "0", "2", "5">>}, m \in {<<"0", "1">>, <<"1", "3">>},
             d \in {<<"3", "1">>}, tail \in DateTails }
    \cup { <<>>, <<"n", "o", "t", " ", "a", " ", "d", "a", "t", "e">>,
           <<"1", "2", ":", "3", "4", ":", "5", "6">>,
           <<"2", "0", "2", "5", "-", "0", "6", "-", "0">> }

\* isDateString(input), as the tests call it
IsDate ==
    /\ pc = "isdate"
    /\ verdict' = IF isDateString(input) THEN "true" ELSE "false"
    /\ pc' = "start"
    /\ UNCHANGED <<input, doc, config, sc, value, output>>

InitDate ==
    /\ pc = "isdate"
    /\ input \in DateTexts
    /\ doc = NoDoc
    /\ config \in {NoFilters, DatesOnly}
    /\ sc = NoScan
    /\ value = NilValue
    /\ output = <<>>
    /\ verdict = "none"

NextDate ==
    \/ IsDate
    \/ Parse
    \/ Render

SpecDate == InitDate /\ [][NextDate]_vars

(***************************************************************************)
(* Claims on the date detector                                             *)
(***************************************************************************)
\* the number a text of decimal digits denotes
NumberOf(ds) ==
    LET RECURSIVE val(_)
        val(k) == IF k = 0 THEN 0 ELSE val(k - 1) * 10 + DigitVal(ds[k])
    IN  val(Len(ds))

InRange(ds, lo, hi) == AllDigits(ds) /\ NumberOf(ds) >= lo /\ NumberOf(ds) <= hi

\* the text starts with YYYY-MM-DD, each field within its bounds
StartsWithDate(s) ==
    /\ Len(s) >= 10
    /\ InRange(SubSeq(s, 1, 4), 1900, 2100)
    /\ s[5] = "-"
    /\ InRange(SubSeq(s, 6, 7), 1, 12)
    /\ s[8] = "-"
    /\ InRange(SubSeq(s, 9, 10), 1, 31)

\* a separator follows the date, and then a time laid out as HH:MM:SS
TimeFollows(s) ==
    /\ Len(s) >= 19
    /\ s[11] \in {" ", "T"}
    /\ s[14] = ":"
    /\ s[17] = ":"

TimeInBounds(s) ==
    /\ InRange(SubSeq(s, 12, 13), 0, 23)
    /\ InRange(SubSeq(s, 15, 16), 0, 59)
    /\ InRange(SubSeq(s, 18, 19), 0, 59)

\* C11: isDateString(s) is true iff s starts with a YYYY-MM-DD within its
\* bounds, is ten characters long or goes on with a space or a T, and, where
\* an HH:MM:SS time follows that separator, the time is within its bounds
C11_DateWithinBounds ==
    verdict # "none" =>
        (verdict = "true" <=>
            /\ StartsWithDate(input)
            /\ (Len(input) = 10 \/ input[11] \in {" ", "T"})
            /\ (TimeFollows(input) => TimeInBounds(input)))

(***************************************************************************)
(* SpecFilter: the conversion of dictionaries whose entries have           *)
(* timestamp-shaped, UUID-shaped and plain keys and values of every kind,  *)
(* with no filter, with date suppression, with UUID suppression and with   *)
(* every filter                                                            *)
(***************************************************************************)
UUIDsOnly == ParseConfig(FALSE, FALSE, TRUE)
AllFilters == ParseConfig(TRUE, TRUE, TRUE)

UUIDText == <<"3", "9", "0", "6", "C", "A", "B", "3", "-", "0", "B", "D", "4", "-", "4", "1",
      "A", "9", "-", "8", "C", "1", "E", "-", "8", "0", "F", "8", "0", "6", "0", "4", "3",
      "E", "7", "D">>
LowerUUIDText == <<"0", "9", "9", "0", "2", "1", "1", "b", "-", "b", "a", "a", "3", "-", "4",
      "9", "6", "b", "-", "a", "4", "7", "7", "-", "1", "8", "a", "c", "f", "2", "5", "8",
      "4", "b", "7", "4">>
HashedIDText == <<"_", "1", "9", "a", "3", "b", "c", "4", "9", "9", "9", "b", "d", "d", "b",
      "8", "9", "e", "1", "a", "4", "4", "f", "4", "b", "8", "7", "b", "d", "c", "3", "7", "c">>

\* keys of TestTimestampFiltering and TestUUIDFiltering, and a few more
StampKeys ==
    { <<"C", "K", "S", "t", "a", "r", "t", "u", "p", "T", "i", "m", "e">>, <<"l", "a", "s",
          "t", "C", "o", "n", "n", "e", "c", "t", "e", "d", "@", "D", "i", "s", "p", "l", "a",
          "y", ":", "2">>, <<"U", "p", "d", "a", "t", "e", "D", "a", "t", "e">>, <<"s", "e",
          "e", "n", "@">> }
PlainKeys == { <<"S", "c", "o", "r", "e">>, <<"R", "e", "g", "u", "l", "a", "r", "F", "i",
      "e", "l", "d">>, <<"D", "e", "v", "i", "c", "e", "I", "D">> }
UUIDKeys == { UUIDText, <<"0", "0", "1", "7", "0", "4", "-", "0", "5",
      "-">> \o LowerUUIDText \o <<"-", "c", "o", "m", ".", "a", "p", "p", "l", "e", ".", "t",
      "e", "s", "t">> }
FilterKeys == StampKeys \cup PlainKeys \cup UUIDKeys

\* numbers below, inside and above the ranges of isUnixTimestamp and
\* isCFAbsoluteTime
NumberTexts ==
    { <<"4", "2">>, <<"1", "0", "0", "0", "0", "0", "0", "0", "0">>, <<"7", "7", "4", "7",
          "2", "8", "0", "5", "0", ".", "4", "7", "0", "1", "3", "3">>, <<"9", "4", "6", "6",
          "8", "4", "8", "0", "0">>, <<"1", "2", "3", "0", "7", "6", "8", "0", "0", "0">>,
      <<"1", "7", "5", "3", "2", "1", "8", "0", "7", "5">>, <<"2", "2", "0", "8", "9", "8",
            "8", "8", "0", "0">>, <<"5", "0", "0", "0", "0", "0", "0", "0", "0", "0">>, <<"-",
            "3", "1", "5", "3", "6", "0", "0", "0">> }

FilterValues ==
    {Bare(t) : t \in NumberTexts}
    \cup { QuotedText(<<"t", "e", "s", "t", "u", "s", "e", "r">>),
           QuotedText(<<"2", "0", "2", "5", "-", "0", "6", "-", "0", "7", " ", "1", "2", ":",
                 "0", "1", ":", "4", "4", " ", "+", "0", "0", "0", "0">>),
           QuotedText(UUIDText),
           QuotedText(LowerUUIDText),
           QuotedText(HashedIDText),
           QuotedText(UUIDText \o <<"x">>),
           QuotedText(Tail(HashedIDText)),
           ArrayDoc(<<Bare(<<"1">>), QuotedText(LowerUUIDText)>>),
           DictDoc(<<KeyB>>, <<Bare(<<"9", "4", "6", "6", "8", "4", "8", "0", "0">>)>>) }

SteadyKey == <<"N", "a", "m", "e">>
SteadyValue == QuotedText(<<"T", "e", "s", "t", " ", "D", "e", "v", "i", "c", "e">>)

\* a dictionary holding the entry next to a steady one, before or after
\* it, at the top or one level down, and an array holding the value
FilterDocs ==
    UNION { { DictDoc(<<k, SteadyKey>>, <<v, SteadyValue>>),
              DictDoc(<<SteadyKey, k>>, <<SteadyValue, v>>),
              DictDoc(<<<<"O", "u", "t", "e",
                    "r">>>>, <<DictDoc(<<k, SteadyKey>>, <<v, SteadyValue>>)>>),
              DictDoc(<<SteadyKey, <<"L", "i", "s",
                    "t">>>>, <<SteadyValue, ArrayDoc(<<v, Bare(<<"x">>)>>)>>) }
            : k \in FilterKeys, v \in FilterValues }

InitFilter ==
    /\ pc = "start"
    /\ \E d \in FilterDocs, layout \in Layouts :
           /\ doc = d
           /\ input = ReadInput(WriteDoc(d, layout, 0) \o <<NL>>)
    /\ config \in {NoFilters, DatesOnly, UUIDsOnly, AllFilters}
    /\ sc = NoScan
    /\ value = NilValue
    /\ output = <<>>
    /\ verdict = "none"

NextFilter ==
    \/ Parse
    \/ Render

SpecFilter == InitFilter /\ [][NextFilter]_vars

RECURSIVE EntriesOf(_)
\* the entries <<key, value>> of a printed property list, at every level
EntriesOf(d) ==
    CASE d.kind = "dict" ->
           {<<d.keys[k], d.vals[k]>> : k \in 1..Len(d.keys)}
           \cup UNION {EntriesOf(d.vals[k]) : k \in 1..Len(d.vals)}
      [] d.kind = "array" -> UNION {EntriesOf(d.elems[k]) : k \in 1..Len(d.elems)}
      [] OTHER -> {}

\* the lines of the text that open an entry of the key, bare or quoted
EntryLines(text, key) ==
    LET lines == Split(text, NL)
    IN  {k \in 1..Len(lines) :
            \/ HasPrefix(TrimLeft(lines[k]), key \o <<" ", "=", " ">>)
            \/ HasPrefix(TrimLeft(lines[k]), Quoted(key) \o <<" ", "=", " ">>)}

\* C12: with date suppression on, the output has no entry whose key matches
\* the timestamp-key classifier, whatever the value of the entry: a number
\* inside or outside the Unix and CFAbsoluteTime ranges, a non-numeric
\* string, an array or a dictionary
C12_TimestampKeyAlwaysDropped ==
    (pc = "done" /\ config.NoDates) =>
        \A e \in EntriesOf(doc) : isTimestampKey(e[1]) => EntryLines(output, e[1]) = {}

\* an array under a timestamp-shaped key was dropped with date suppression
\* on while the entry next to it was written
C12_Witness ==
    /\ pc = "done"
    /\ config.NoDates
    /\ doc.kind = "dict"
    /\ Len(doc.keys) = 2
    /\ isTimestampKey(doc.keys[1])
    /\ doc.vals[1].kind = "array"
    /\ value.type = "dict"
    /\ doc.keys[1] \in DOMAIN value.Values
    /\ value.Values[doc.keys[1]].type = "array"
    /\ EntryLines(output, doc.keys[1]) = {}
    /\ EntryLines(output, SteadyKey) # {}

\* a key-level filter of the configuration other than date suppression
\* matches the key
OtherKeyFilter(key) ==
    \/ (config.NoState /\ isUIStateKey(key))
    \/ (config.NoUUIDs /\ isUUIDKey(key))

\* the entries of the printed property list whose value is a number and
\* whose key, like the key of every dictionary around them, matches neither
\* the timestamp-key classifier nor another filter that is switched on
PlainNumberEntries ==
    {e \in EntriesOf(doc) :
        /\ ~isTimestampKey(e[1]) /\ ~OtherKeyFilter(e[1])
        /\ e[2].kind = "bare"
        /\ e[2].text \in NumberTexts
        /\ \A f \in EntriesOf(doc) :
               e \in EntriesOf(f[2]) => ~isTimestampKey(f[1]) /\ ~OtherKeyFilter(f[1])}

\* the line is the entry of the key with the number as its value
IsNumberLine(line, key, number) ==
    \/ TrimLeft(line) = key \o <<" ", "=", " ">> \o number \o <<";">>
    \/ TrimLeft(line) = Quoted(key) \o <<" ", "=", " ">> \o number \o <<";">>

\* C13: with date suppression on, an entry whose key does not match the
\* timestamp-key classifier (nor another filter that is on) and whose value
\* is a number is retained in the output, on one line, also when the number
\* lies inside the Unix range [946684800, 2208988800] or the CFAbsoluteTime
\* range [100000000, 1230768000]
C13_NumberUnderPlainKeyKept ==
    (pc = "done" /\ config.NoDates) =>
        \A e \in PlainNumberEntries :
            /\ Cardinality(EntryLines(output, e[1])) = 1
            /\ \A k \in EntryLines(output, e[1]) :
                   IsNumberLine(Split(output, NL)[k], e[1], e[2].text)

\* RegularField = 946684800, the first second of both ranges' year 2000,
\* was written with date suppression on
C13_Witness ==
    /\ pc = "done"
    /\ config = DatesOnly
    /\ doc.kind = "dict"
    /\ doc.keys[1] = <<"R", "e", "g", "u", "l", "a", "r", "F", "i", "e", "l", "d">>
    /\ doc.vals[1] = Bare(<<"9", "4", "6", "6", "8", "4", "8", "0", "0">>)
    /\ <<doc.keys[1], doc.vals[1]>> \in PlainNumberEntries
    /\ Contains(output, <<"R", "e", "g", "u", "l", "a", "r", "F", "i", "e", "l", "d", " ",
                          "=", " ", "9", "4", "6", "6", "8", "4", "8", "0", "0", ";">>)

IsHexText(s) == \A k \in 1..Len(s) : IsHexChar(s[k])

\* 8-4-4-4-12 hex characters, hyphen separated
CanonicalUUID(s) ==
    LET groups == Split(s, "-")
    IN  /\ Len(groups) = 5
        /\ \A k \in 1..5 : Len(groups[k]) = <<8, 4, 4, 4, 12>>[k] /\ IsHexText(groups[k])

HoldsUUID(key) ==
    \E from \in 1..Len(key), to \in 1..Len(key) : CanonicalUUID(SubSeq(key, from, to))

\* a canonical UUID, or an underscore followed by exactly 32 hex characters
IdentifierText(s) ==
    \/ CanonicalUUID(s)
    \/ (Len(s) = 33 /\ s[1] = "_" /\ IsHexText(Tail(s)))

IsIdentifierDoc(d) == d.kind \in {"bare", "quoted"} /\ IdentifierText(d.text)

RECURSIVE ScalarsOf(_)
\* the texts of the scalars of a printed property list, at every level
ScalarsOf(d) ==
    CASE d.kind \in {"bare", "quoted"} -> {d.text}
      [] d.kind = "array" -> UNION {ScalarsOf(d.elems[k]) : k \in 1..Len(d.elems)}
      [] d.kind = "dict" -> UNION {ScalarsOf(d.vals[k]) : k \in 1..Len(d.vals)}
      [] OTHER -> {}

RECURSIVE WithoutIdentifiers(_)
\* the printed property list without the entries whose key holds a UUID
\* and without the entries and elements whose value is an identifier
WithoutIdentifiers(d) ==
    CASE d.kind = "array" ->
           LET kept == SelectSeq(d.elems, LAMBDA e : ~IsIdentifierDoc(e))
           IN  ArrayDoc([k \in 1..Len(kept) |-> WithoutIdentifiers(kept[k])])
      [] d.kind = "dict" ->
           LET idx  == SelectSeq([k \in 1..Len(d.keys) |-> k],
                                 LAMBDA k : ~HoldsUUID(d.keys[k]) /\ ~IsIdentifierDoc(d.vals[k]))
           IN  DictDoc([k \in 1..Len(idx) |-> d.keys[idx[k]]],
                       [k \in 1..Len(idx) |-> WithoutIdentifiers(d.vals[idx[k]])])
      [] OTHER -> d

\* what the conversion writes for the printed property list under the
\* configuration
Converted(d, cfg) ==
    ToNix(parseValueWithConfig(ReadInput(WriteDoc(d, "compact", 0) \o <<NL>>), cfg), 0)

\* C14: with UUID suppression on, the output contains no dictionary entry
\* whose key is or contains a canonical 8-4-4-4-12 UUID and no scalar value
\* that is a canonical UUID or an underscore followed by exactly 32 hex
\* characters, while all the other entries are rendered exactly as they are
\* with UUID suppression off
C14_UUIDSuppression ==
    (pc = "done" /\ config.NoUUIDs) =>
        /\ \A e \in EntriesOf(doc) : HoldsUUID(e[1]) => EntryLines(output, e[1]) = {}
        /\ \A t \in ScalarsOf(doc) : IdentifierText(t) => ~Contains(output, Quoted(t))
        /\ output = Converted(WithoutIdentifiers(doc), [config EXCEPT !.NoUUIDs = FALSE])

\* the entry under a key that holds a UUID between other text was dropped
\* while the entry next to it was written
C14_Witness ==
    /\ pc = "done"
    /\ config = UUIDsOnly
    /\ Len(doc.keys) = 2
    /\ HoldsUUID(doc.keys[1]) /\ ~CanonicalUUID(doc.keys[1])
    /\ doc.vals[1] = Bare(<<"4", "2">>)
    /\ doc.keys[1] \in DOMAIN value.Values
    /\ EntryLines(output, doc.keys[1]) = {}
    /\ EntryLines(output, SteadyKey) # {}

(***************************************************************************)
(* SpecRead: convertDefaultsWithConfig line by line over a reader that     *)
(* hands out its bytes and then ends or fails                              *)
(***************************************************************************)
\* stands for bufio.MaxScanTokenSize, the 64 KiB of the scanner's buffer
MaxTokenSize == 4
\* the largest number of bytes a reader hands out
MaxDataLen == 4

DataAlphabet == {"{", "}", Q, "a", NL}

\* texts of several short lines, well formed and not
NamedData ==
    { <<"{", NL, "a", "=", "1", NL, "}", NL>>,
      <<"{", NL, NL, NL, NL, "}">>,
      <<"(", NL, "a", ",", NL, Q, "b", NL, ")">>,
      <<"{", NL, "a", " ", "=", NL, "1", ";", NL, "}">>,
      <<"a", NL, NL, "{", "{", "{", "{", "{", "{">> }

ReaderData == SeqsUpTo(DataAlphabet, MaxDataLen) \cup NamedData

\* the reader: the bytes it hands out, and whether it then reports the end
\* of the input or an error
Reader(data, fails) == [data |-> data, fails |-> fails]

\* the bytes of the reader the scanner has not consumed yet
Rest(s) == SubSeq(s.reader.data, s.pos + 1, Len(s.reader.data))

\* the length of the line the rest starts with, if the rest holds its end
LineEnd(rest) == CHOOSE k \in 0..Len(rest) :
                     /\ k < Len(rest) /\ rest[k + 1] = NL
                     /\ \A j \in 1..k : rest[j] # NL

HasLineEnd(rest) == \E k \in 1..Len(rest) : rest[k] = NL

\* bufio.Scanner with ScanLines: the next token is the line up to the next
\* line end, or the rest of the input when it has no further line end; the
\* buffer must hold the token and, if there is one, its line end
TokenReady(rest) ==
    IF HasLineEnd(rest) THEN LineEnd(rest) < MaxTokenSize
    ELSE rest # <<>> /\ Len(rest) < MaxTokenSize

\* the buffer is full and holds no token: bufio.ErrTooLong
TokenTooLong(rest) ==
    IF HasLineEnd(rest) THEN LineEnd(rest) >= MaxTokenSize
    ELSE Len(rest) >= MaxTokenSize

\* main.go 812-814: scanner.Scan() yields a line, which joins the content
\* followed by "\n"
ScanLine ==
    /\ pc = "reading"
    /\ TokenReady(Rest(sc))
    /\ LET rest == Rest(sc)
           n    == IF HasLineEnd(rest) THEN LineEnd(rest) ELSE Len(rest)
       IN  sc' = [sc EXCEPT !.content = @ \o SubSeq(rest, 1, n) \o <<NL>>,
                            !.pos = IF HasLineEnd(rest) THEN @ + n + 1 ELSE @ + n]
    /\ UNCHANGED <<pc, input, doc, config, value, output, verdict>>

\* mutant: a failed read returns what was read before the failure
ScanFail_KeepsContent ==
    /\ pc = "reading"
    /\ ~TokenReady(Rest(sc))
    /\ TokenTooLong(Rest(sc)) \/ sc.reader.fails
    /\ verdict' = IF TokenTooLong(Rest(sc)) THEN "token too long" ELSE "read error"
    /\ output' = sc.content
    /\ pc' = "failed"
    /\ UNCHANGED <<input, doc, config, sc, value>>

\* main.go 812 and 816-818: scanner.Scan() yields no line and scanner.Err()
\* is the scanner's or the reader's error
ScanFail ==
    /\ pc = "reading"
    /\ ~TokenReady(Rest(sc))
    /\ TokenTooLong(Rest(sc)) \/ sc.reader.fails
    /\ verdict' = IF TokenTooLong(Rest(sc)) THEN "token too long" ELSE "read error"
    /\ output' = <<>>
    /\ pc' = "failed"
    /\ UNCHANGED <<input, doc, config, sc, value>>

\* main.go 812, 816 and 820: the input has ended, scanner.Err() is nil
ScanEnd ==
    /\ pc = "reading"
    /\ Rest(sc) = <<>>
    /\ ~sc.reader.fails
    /\ input' = TrimSpace(sc.content)
    /\ pc' = "start"
    /\ UNCHANGED <<doc, config, sc, value, output, verdict>>

InitRead ==
    /\ pc = "reading"
    /\ input = <<>>
    /\ doc = NoDoc
    /\ config = NoFilters
    /\ \E data \in ReaderData, fails \in BOOLEAN :
           sc = [loop |-> "read", reader |-> Reader(data, fails), pos |-> 0,
                 content |-> <<>>]
    /\ value = NilValue
    /\ output = <<>>
    /\ verdict = "none"

NextRead ==
    \/ ScanLine
    \/ ScanFail
    \/ ScanEnd
    \/ Parse
    \/ Render

SpecRead == InitRead /\ [][NextRead]_vars

\* the reader fails, or one of the lines it hands out does not fit the
\* scanner's buffer
ReadingFails(reader) ==
    \/ reader.fails
    \/ \E k \in 1..Len(Split(reader.data, NL)) :
           Len(Split(reader.data, NL)[k]) >= MaxTokenSize

\* C15: convertDefaultsWithConfig returns an error only when reading the
\* input fails (the reader fails, or a line is longer than the scanner's
\* token limit), and then its output is the empty string; whatever the
\* structure of the text, a read that does not fail is parsed and rendered
\* without an error
C15_ErrorOnlyFromReading ==
    /\ verdict # "none" <=> pc = "failed"
    /\ pc = "failed" => output = <<>> /\ ReadingFails(sc.reader)
    /\ pc \in {"start", "parsed", "done"} => ~ReadingFails(sc.reader)
    /\ pc = "parsed" => IsValue(value)

\* the second line did not fit the buffer: the first line had been read,
\* and nothing was returned but the error
C15_Witness ==
    /\ pc = "failed"
    /\ verdict = "token too long"
    /\ ~sc.reader.fails
    /\ sc.content # <<>>
    /\ output = <<>>

(***************************************************************************)
(* SpecSpace: the conversion of one property list printed with different   *)
(* whitespace between its tokens                                           *)
(***************************************************************************)
\* the whitespace written at each place between two tokens: inside the
\* delimiters of a container, around `=`, around `;` and around `,`
Gaps(inside, beforeEq, afterEq, beforeSemi, afterSemi, beforeComma, afterComma) ==
    [inside |-> inside, beforeEq |-> beforeEq, afterEq |-> afterEq,
     beforeSemi |-> beforeSemi, afterSemi |-> afterSemi,
     beforeComma |-> beforeComma, afterComma |-> afterComma]

\* the whitespace of `defaults read` when its output is put on one line
PlainGaps == Gaps(<<>>, <<" ">>, <<" ">>, <<>>, <<" ">>, <<>>, <<" ">>)

Whites == { <<>>, <<" ">>, <<" ", " ">>, <<"\t">>, <<NL, "\t">> }

GapPlaces == DOMAIN PlainGaps

\* the plain whitespace changed at one place, and one whitespace at every
\* place
GapChoices ==
    {[PlainGaps EXCEPT ![p] = w] : p \in GapPlaces, w \in Whites}
    \cup {[p \in GapPlaces |-> w] : w \in Whites}

RECURSIVE WriteGapped(_, _)
RECURSIVE WriteGappedElems(_, _)
WriteGappedElems(elems, g) ==
    IF elems = <<>> THEN <<>>
    ELSE WriteGapped(elems[1], g)
         \o (IF Len(elems) > 1 THEN g.beforeComma \o <<",">> \o g.afterComma ELSE <<>>)
         \o WriteGappedElems(Tail(elems), g)

RECURSIVE WriteGappedEntries(_, _, _)
WriteGappedEntries(keys, vals, g) ==
    IF keys = <<>> THEN <<>>
    ELSE WriteKey(keys[1]) \o g.beforeEq \o <<"=">> \o g.afterEq
         \o WriteGapped(vals[1], g) \o g.beforeSemi \o <<";">>
         \o (IF Len(keys) > 1 THEN g.afterSemi ELSE <<>>)
         \o WriteGappedEntries(Tail(keys), Tail(vals), g)

\* the text of a property list with the whitespace between its tokens
WriteGapped(d, g) ==
    CASE d.kind = "bare" -> d.text
      [] d.kind = "quoted" -> WriteString(d.text)
      [] d.kind = "blob" -> WriteBlob(d.sep)
      [] d.kind = "array" ->
           <<"(">> \o g.inside \o WriteGappedElems(d.elems, g) \o g.inside \o <<")">>
      [] d.kind = "dict" ->
           <<"{">> \o g.inside \o WriteGappedEntries(d.keys, d.vals, g) \o g.inside
           \o <<"}">>

\* well-formed property lists: one or two entries or elements
SpaceDocs ==
    UNION { { DictDoc(<<KeyA>>, <<v>>),
              DictDoc(<<KeyA, KeySpaced>>, <<Bare(<<"1">>), v>>),
              ArrayDoc(<<v>>),
              ArrayDoc(<<v, Bare(<<"a">>)>>) } : v \in InnerDocs }

InitSpace ==
    /\ pc = "start"
    /\ \E d \in SpaceDocs, g \in GapChoices :
           /\ doc = d
           /\ sc = [loop |-> "none", gaps |-> g]
           /\ input = ReadInput(WriteGapped(d, g) \o <<NL>>)
    /\ config = NoFilters
    /\ value = NilValue
    /\ output = <<>>
    /\ verdict = "none"

NextSpace ==
    \/ Parse
    \/ Render

SpecSpace == InitSpace /\ [][NextSpace]_vars

\* C16: whitespace outside quotes between tokens does not affect the
\* result: with spaces, tabs or newlines inserted or removed around `=`,
\* `;`, `,` and the container delimiters, a well-formed input yields the
\* same parsed Value
C16_WhitespaceInsignificant ==
    pc \in {"parsed", "done"} =>
        value = parseValueWithConfig(WriteGapped(doc, PlainGaps), config)

(***************************************************************************)
(* SpecWord: the conversion of an unquoted token made only of letters      *)
(***************************************************************************)
MaxWordLen == 3

WordAlphabet == {"i", "n", "f", "a", "I", "N", "F", "A", "t", "y"}

\* words of the tests and the documentation, and longer words
NamedWords ==
    { <<"D", "a", "r", "k">>, <<"L", "i", "n", "k", "e", "d", "I", "n">>, <<"s", "i", "m",
          "p", "l", "e">>, <<"t", "r", "u", "e">>, <<"f", "a", "l", "s", "e">>, <<"Y", "E",
          "S">>, <<"i", "n", "f", "i", "n", "i", "t", "y">>,
      <<"I", "n", "f", "i", "n", "i", "t", "y">>, <<"n", "a", "n", "o">>, <<"i", "n", "f", "o">> }

Words == (SeqsUpTo(WordAlphabet, MaxWordLen) \ {<<>>}) \cup NamedWords

InitWord ==
    /\ pc = "start"
    /\ input \in Words
    /\ doc = NoDoc
    /\ config = NoFilters
    /\ sc = NoScan
    /\ value = NilValue
    /\ output = <<>>
    /\ verdict = "none"

NextWord ==
    \/ Parse
    \/ Render

SpecWord == InitWord /\ [][NextWord]_vars

\* C17: every unquoted token made only of letters is rendered as a
\* double-quoted string literal containing the same text
C17_WordsBecomeStrings ==
    pc = "done" => output = Quoted(input)

(***************************************************************************)
(* SpecCli: main from its arguments to its exit status: the flag package's *)
(* parse of the command line, the checks on the flags, and the mode that   *)
(* runs.  The conversion itself is left out: a mode that succeeds writes   *)
(* its result to the output path or prints it.                             *)
(***************************************************************************)
\* the largest number of command-line arguments
MaxArgs == 3

DashO == <<"-", "o">>
DashOut == <<"-", "o", "u", "t">>

ArgTokens ==
    { <<"-", "a", "l", "l">>, <<"-", "s", "p", "l", "i", "t">>, DashO, DashOut, <<"-", "-",
          "o", "u", "t", "=", "f", ".", "n", "i", "x">>, <<"-", "f", "i", "l", "t", "e",
          "r">>, <<"d", "a", "t", "e", "s">>,
      <<"D", "a", "t", "e", "s", ",", " ", "n", "o", "p", "e">>, <<"f", ".", "n", "i",
            "x">>, <<"d", "i", "r">> }

ArgLists == SeqsUpTo(ArgTokens, MaxArgs)

\* the one path of the file system that is a directory; no other path exists
IsDirectory(path) == path = <<"d", "i", "r">>

\* lines 889-892: the flags main defines, with their default values
BoolFlags == {<<"a", "l", "l">>, <<"s", "p", "l", "i", "t">>}
TextFlags == {<<"f", "i", "l", "t", "e", "r">>, <<"o", "u", "t">>}
DefaultFlags == [all |-> FALSE, split |-> FALSE, filter |-> <<>>, out |-> <<>>]

SetFlag(flags, name, v) ==
    CASE name = <<"a", "l", "l">> -> [flags EXCEPT !.all = v]
      [] name = <<"s", "p", "l", "i", "t">> -> [flags EXCEPT !.split = v]
      [] name = <<"f", "i", "l", "t", "e", "r">> -> [flags EXCEPT !.filter = v]
      [] name = <<"o", "u", "t">> -> [flags EXCEPT !.out = v]

\* strconv.ParseBool, for the value of -all=... and -split=...
TrueTexts == {<<"1">>, <<"t">>, <<"T">>, <<"t", "r", "u", "e">>, <<"T", "R", "U",
      "E">>, <<"T", "r", "u", "e">>}
FalseTexts == {<<"0">>, <<"f">>, <<"F">>, <<"f", "a", "l", "s", "e">>, <<"F", "A", "L", "S",
      "E">>, <<"F", "a", "l", "s", "e">>}

\* the position of the first = after the first character of the name, or 0
EqualsAt(name) ==
    IF \E k \in 2..Len(name) : name[k] = "="
    THEN CHOOSE k \in 2..Len(name) : name[k] = "=" /\ \A j \in 2..(k - 1) : name[j] # "="
    ELSE 0

RECURSIVE FlagParse(_, _)
\* line 893, flag.Parse(): the flags are read up to the first argument that
\* is not a flag; a flag that is not defined, a bad value or a missing
\* value ends the program with status 2, -h and -help with status 0
FlagParse(args, flags) ==
    IF args = <<>> THEN [err |-> "none", flags |-> flags, rest |-> <<>>]
    ELSE LET s == args[1] IN
         IF Len(s) < 2 \/ s[1] # "-" THEN [err |-> "none", flags |-> flags, rest |-> args]
         ELSE IF s = <<"-", "-">> THEN [err |-> "none", flags |-> flags, rest |-> Tail(args)]
         ELSE LET body == IF s[2] = "-" THEN SubSeq(s, 3, Len(s)) ELSE Tail(s)
                  eq   == EqualsAt(body)
                  name == IF eq = 0 THEN body ELSE SubSeq(body, 1, eq - 1)
                  val  == IF eq = 0 THEN <<>> ELSE SubSeq(body, eq + 1, Len(body))
                  fail == [err |-> "error", flags |-> flags, rest |-> Tail(args)]
              IN  IF body = <<>> \/ body[1] \in {"-", "="} THEN fail
                  ELSE IF name \in BoolFlags
                       THEN IF eq = 0 THEN FlagParse(Tail(args), SetFlag(flags, name, TRUE))
                            ELSE IF val \in TrueTexts \cup FalseTexts
                                 THEN FlagParse(Tail(args),
                                                SetFlag(flags, name, val \in TrueTexts))
                                 ELSE fail
                  ELSE IF name \in TextFlags
                       THEN IF eq # 0 THEN FlagParse(Tail(args), SetFlag(flags, name, val))
                            ELSE IF Len(args) >= 2
                                 THEN FlagParse(SubSeq(args, 3, Len(args)),
                                                SetFlag(flags, name, args[2]))
                                 ELSE fail
                  ELSE IF name \in {<<"h">>, <<"h", "e", "l", "p">>}
                       THEN [err |-> "help", flags |-> flags, rest |-> Tail(args)]
                  ELSE fail

\* lines 896-912: every item of -filter is one of dates, state and uuids
FilterItems(filter) ==
    IF filter = <<>> THEN <<>>
    ELSE LET parts == Split(filter, ",")
         IN  [k \in 1..Len(parts) |-> TrimSpace(ToLower(parts[k]))]

FilterOk(filter) ==
    \A k \in 1..Len(FilterItems(filter)) :
        FilterItems(filter)[k] \in {<<"d", "a", "t", "e", "s">>, <<"s", "t", "a", "t",
              "e">>, <<"u", "u", "i", "d", "s">>}

FilterConfig(filter) ==
    LET items == {FilterItems(filter)[k] : k \in 1..Len(FilterItems(filter))}
    IN  ParseConfig(<<"d", "a", "t", "e", "s">> \in items, <<"s", "t", "a", "t",
          "e">> \in items, <<"u", "u", "i", "d", "s">> \in items)

\* lines 864-868 and 889-893: the platform check and flag.Parse()
ParseFlags ==
    /\ pc = "main"
    /\ LET p == FlagParse(sc.args, DefaultFlags)
       IN  IF sc.goos # "darwin"
           THEN verdict' = "exit 1" /\ pc' = "exited" /\ UNCHANGED sc
           ELSE IF p.err = "error"
           THEN verdict' = "exit 2" /\ pc' = "exited" /\ UNCHANGED sc
           ELSE IF p.err = "help"
           THEN verdict' = "exit 0" /\ pc' = "exited" /\ UNCHANGED sc
           ELSE /\ sc' = [sc EXCEPT !.flags = p.flags, !.rest = p.rest]
                /\ pc' = "flags"
                /\ UNCHANGED verdict
    /\ UNCHANGED <<input, doc, config, value, output>>

\* lines 896-965: the filter items and the combination of the flags are
\* checked; the output directory of -split is made when it is missing
CheckFlags ==
    /\ pc = "flags"
    /\ LET f == sc.flags
           bad ==
               \/ ~FilterOk(f.filter)
               \/ (~f.all /\ ~f.split /\ f.out = <<>> /\ Len(sc.rest) = 0)
               \/ ((f.all \/ f.split) /\ Len(sc.rest) > 0)
               \/ (f.all /\ f.split)
               \/ (f.split /\ f.out = <<>>)
               \/ (~f.split /\ f.out # <<>> /\ (f.all \/ Len(sc.rest) > 0)
                   /\ IsDirectory(f.out))
       IN  IF bad
           THEN verdict' = "exit 1" /\ pc' = "exited" /\ UNCHANGED config
           ELSE config' = FilterConfig(f.filter) /\ pc' = "run" /\ UNCHANGED verdict
    /\ UNCHANGED <<input, doc, sc, value, output>>

\* lines 980-988 and 1070-1078: the result goes to the output path, or to
\* the standard output when there is none
Deliver ==
    IF sc.flags.out # <<>>
    THEN sc' = [sc EXCEPT !.wrote = sc.flags.out]
    ELSE sc' = [sc EXCEPT !.printed = TRUE]

\* lines 967-988: -all
RunAll ==
    /\ pc = "run"
    /\ sc.flags.all
    /\ IF sc.cmdOk THEN verdict' = "exit 0" /\ Deliver
       ELSE verdict' = "exit 1" /\ UNCHANGED sc
    /\ pc' = "exited"
    /\ UNCHANGED <<input, doc, config, value, output>>

\* lines 989-1055: -split writes one file per domain into the directory,
\* and fails when no domain could be written
RunSplit ==
    /\ pc = "run"
    /\ ~sc.flags.all /\ sc.flags.split
    /\ IF sc.cmdOk THEN verdict' = "exit 0" /\ sc' = [sc EXCEPT !.wrote = sc.flags.out]
       ELSE verdict' = "exit 1" /\ UNCHANGED sc
    /\ pc' = "exited"
    /\ UNCHANGED <<input, doc, config, value, output>>

\* lines 1056-1079: one domain
RunDomain ==
    /\ pc = "run"
    /\ ~sc.flags.all /\ ~sc.flags.split /\ Len(sc.rest) > 0
    /\ IF sc.cmdOk THEN verdict' = "exit 0" /\ Deliver
       ELSE verdict' = "exit 1" /\ UNCHANGED sc
    /\ pc' = "exited"
    /\ UNCHANGED <<input, doc, config, value, output>>

\* line 1080: -out alone selects no mode, and main returns
RunNothing ==
    /\ pc = "run"
    /\ ~sc.flags.all /\ ~sc.flags.split /\ Len(sc.rest) = 0
    /\ verdict' = "exit 0"
    /\ pc' = "exited"
    /\ UNCHANGED <<input, doc, config, sc, value, output>>

InitCli ==
    /\ pc = "main"
    /\ input = <<>>
    /\ doc = NoDoc
    /\ config = NoFilters
    /\ \E args \in ArgLists, goos \in {"darwin", "linux"}, cmdOk \in BOOLEAN :
           sc = [loop |-> "cli", args |-> args, goos |-> goos, cmdOk |-> cmdOk,
                 flags |-> DefaultFlags, rest |-> <<>>, wrote |-> <<>>, printed |-> FALSE]
    /\ value = NilValue
    /\ output = <<>>
    /\ verdict = "none"

NextCli ==
    \/ ParseFlags
    \/ CheckFlags
    \/ RunAll
    \/ RunSplit
    \/ RunDomain
    \/ RunNothing

SpecCli == InitCli /\ [][NextCli]_vars

\* the arguments with every -o spelled -out
SpelledOut(args) == [k \in 1..Len(args) |-> IF args[k] = DashO THEN DashOut ELSE args[k]]

\* where the run ends that starts from the arguments on the platform and
\* with the outcome of the `defaults` command of the state: the exit status,
\* the path written and whether the result was printed
Outcome(args) ==
    LET p == FlagParse(args, DefaultFlags)
        f == p.flags
        deliver == f.all \/ f.split \/ Len(p.rest) > 0
    IN  IF sc.goos # "darwin" THEN <<"exit 1", <<>>, FALSE>>
        ELSE IF p.err = "error" THEN <<"exit 2", <<>>, FALSE>>
        ELSE IF p.err = "help" THEN <<"exit 0", <<>>, FALSE>>
        ELSE IF \/ ~FilterOk(f.filter)
                \/ (~f.all /\ ~f.split /\ f.out = <<>> /\ Len(p.rest) = 0)
                \/ ((f.all \/ f.split) /\ Len(p.rest) > 0)
                \/ (f.all /\ f.split)
                \/ (f.split /\ f.out = <<>>)
                \/ (~f.split /\ f.out # <<>> /\ deliver /\ IsDirectory(f.out))
             THEN <<"exit 1", <<>>, FALSE>>
        ELSE IF deliver /\ ~sc.cmdOk THEN <<"exit 1", <<>>, FALSE>>
        ELSE <<"exit 0", IF deliver THEN f.out ELSE <<>>, deliver /\ f.out = <<>> >>

\* C18: the command line accepts -o as the output-path flag, equivalent to
\* -out: a run ends as the run does whose arguments spell every -o as -out
C18_ShortOutFlag ==
    pc = "exited" => <<verdict, sc.wrote, sc.printed>> = Outcome(SpelledOut(sc.args))

(***************************************************************************)
(* Claims on the steps of the two scanners                                 *)
(***************************************************************************)
\* the scanner loop is about to read a backslash or the character after one
AtEscape ==
    /\ pc \in {"array", "dict"}
    /\ sc.i < Len(sc.runes)
    /\ (sc.escape \/ sc.runes[sc.i + 1] = BS)

\* the step appends the character it reads to the token being accumulated
\* and leaves the other accumulator as it is
EscapeCopied ==
    LET char == sc.runes[sc.i + 1]
    IN  IF pc = "array" THEN sc'.current = Append(sc.current, char)
        ELSE IF sc.inKey
             THEN /\ sc'.currentKey = Append(sc.currentKey, char)
                  /\ sc'.currentValue = sc.currentValue
             ELSE /\ sc'.currentValue = Append(sc.currentValue, char)
                  /\ sc'.currentKey = sc.currentKey

\* C19: in both scanners a backslash and the character after it are
\* appended, unchanged and in place, to the token being accumulated at that
\* moment: the key while a dict key is being read, the value while a dict
\* value is being read, the element in an array; characters read in key
\* mode never change the value accumulator
C19_EscapeJoinsCurrentToken == [][AtEscape => EscapeCopied]_vars

(***************************************************************************)
(* SpecNest: parseDictWithConfig, step by step, on dictionaries whose      *)
(* values hold separators and delimiters inside nested containers and      *)
(* inside quoted strings                                                   *)
(***************************************************************************)
NestValues ==
    { QuotedText(<<";", " ", "=", " ", "{", ")">>),
      QuotedText(<<"}", "(", ";">>),
      QuotedText(<<"q", Q, ";", BS, "}">>),
      DictDoc(<<KeyB>>, <<Bare(<<"1">>)>>),
      DictDoc(<<KeyB, KeyC>>, <<Bare(<<"1">>), QuotedText(<<";", " ", "=", " ", "{">>)>>),
      DictDoc(<<KeyC>>, <<DictDoc(<<KeyB>>, <<ArrayDoc(<<Bare(<<"1">>)>>)>>)>>),
      ArrayDoc(<<DictDoc(<<KeyB, KeyC>>, <<Bare(<<"1">>), Bare(<<"2">>)>>), QuotedText(<<")">>)>>),
      ArrayDoc(<<ArrayDoc(<<>>), DictDoc(<<KeyC>>, <<QuotedText(<<"x", ";">>)>>)>>),
      Blob(";") }

NestDocs ==
    UNION { { DictDoc(<<KeyA>>, <<v>>),
              DictDoc(<<KeyA, KeyB>>, <<v, Bare(<<"1">>)>>),
              DictDoc(<<KeyB, KeyA>>, <<Bare(<<"1">>), v>>),
              DictDoc(<<KeyA, KeyB>>, <<v, w>>) } : v \in NestValues, w \in NestValues }

InitNest ==
    /\ pc = "start"
    /\ \E d \in NestDocs, layout \in Layouts :
           /\ doc = d
           /\ input = ReadInput(WriteDoc(d, layout, 0) \o <<NL>>)
    /\ config = NoFilters
    /\ sc = NoScan
    /\ value = NilValue
    /\ output = <<>>
    /\ verdict = "none"

NextNest ==
    \/ Start
    \/ DictScanStep
    \/ DictFinish
    \/ Render

SpecNest == InitNest /\ [][NextNest]_vars

\* the scanner is reading a value and stands inside a nested container or
\* inside a quoted string
InsideValue ==
    /\ pc = "dict"
    /\ sc.i < Len(sc.runes)
    /\ ~sc.inKey
    /\ (sc.depth > 0 \/ sc.inQuotes)

\* the next step commits no pair and leaves the key and the mode alone
StaysInPair ==
    LET n == DictStep(sc, config)
    IN  /\ n.order = sc.order
        /\ n.values = sc.values
        /\ n.currentKey = sc.currentKey
        /\ ~n.inKey

\* C20: in parseDictWithConfig a `;` ends the current value only at nesting
\* depth 0 outside quotes: for a value with balanced delimiters, no `;`,
\* ` = `, `{`, `}`, `(` or `)` inside a nested container or inside a quoted
\* string ends the enclosing pair or changes its key, and the pair holds the
\* whole value under its key
C20_NestedSeparatorsInert ==
    /\ InsideValue => StaysInPair
    /\ pc \in {"parsed", "done"} =>
           /\ value.type = "dict"
           /\ value.Order = doc.keys
           /\ \A k \in 1..Len(doc.keys) :
                  value.Values[doc.keys[k]]
                      = parseValueWithConfig(WriteDoc(doc.vals[k], "compact", 0), config)

\* the scanner stands on a `;` one level down in the value of the first
\* pair, which it has not committed
C20_Witness ==
    /\ InsideValue
    /\ sc.runes[sc.i + 1] = ";"
    /\ sc.depth = 1
    /\ ~sc.inQuotes
    /\ sc.currentKey = KeyA
    /\ sc.order = <<>>
    /\ doc.vals[1].kind = "dict"
    /\ Len(doc.keys) = 2

(***************************************************************************)
(* SpecArray: parseArrayWithConfig on every short text between parentheses *)
(***************************************************************************)
MaxArrayLen == 4

ArrayAlphabet == {"a", ",", ";", " ", "(", ")", Q, BS}

\* arrays of the tests that are longer than MaxArrayLen
NamedArrays ==
    { <<"a", ",", " ", "b", ",", " ", "c", ",">>, <<"a", ",", ",", " ", "b">>, <<"(", ")",
          ",", " ", "(", "a", ",", " ", "b", ")", ",", " ", "(", ")">>, <<"a", ";", " ", "b",
          ";", " ", "c">>, <<"{", "a", " ", "=", " ", "1", ";", " ", "b", " ", "=", " ", "2",
          ";", "}", ",", " ", "c">>,
      <<Q, "x", ",", " ", "y", Q, ",", " ", "z">> }

ArrayTexts ==
    {<<"(">> \o s \o <<")">> : s \in SeqsUpTo(ArrayAlphabet, MaxArrayLen) \cup NamedArrays}

InitArray ==
    /\ pc = "start"
    /\ input \in ArrayTexts
    /\ doc = NoDoc
    /\ config = NoFilters
    /\ sc = NoScan
    /\ value = NilValue
    /\ output = <<>>
    /\ verdict = "none"

NextArray ==
    \/ Parse
    \/ Render

SpecArray == InitArray /\ [][NextArray]_vars

\* the text between the parentheses, trimmed
ArrayContent == TrimSpace(SubSeq(input, 2, Len(input) - 1))

\* the number of backslashes that stand right before position k
RECURSIVE BackslashesBefore(_, _)
BackslashesBefore(s, k) ==
    IF k > 1 /\ s[k - 1] = BS THEN 1 + BackslashesBefore(s, k - 1) ELSE 0

\* the character at k follows a backslash that escapes it
Escaped(s, k) == BackslashesBefore(s, k) % 2 = 1

\* the character at k stands between an opening quote and its closing quote
Quoting(s, k) ==
    Cardinality({j \in 1..(k - 1) : s[j] = Q /\ ~Escaped(s, j)}) % 2 = 1

\* the character at k is read as a separator or a delimiter
Plain(s, k) == ~Escaped(s, k) /\ ~Quoting(s, k) /\ s[k] \notin {Q, BS}

\* the nesting depth after the character at k
DepthAt(s, k) ==
    Cardinality({j \in 1..k : Plain(s, j) /\ s[j] \in {"(", "{"}})
    - Cardinality({j \in 1..k : Plain(s, j) /\ s[j] \in {")", "}"}})

\* the positions of the commas at the top level
TopCommas(s) == {k \in 1..Len(s) : s[k] = "," /\ Plain(s, k) /\ DepthAt(s, k) = 0}

\* every container of the text is closed, none is closed before it is
\* opened, and every quote is closed
Balanced(s) ==
    /\ \A k \in 1..Len(s) : DepthAt(s, k) >= 0
    /\ DepthAt(s, Len(s)) = 0
    /\ ~Quoting(s, Len(s) + 1)

\* the texts between the top-level commas, in source order
RECURSIVE SegmentsFrom(_, _)
SegmentsFrom(s, from) ==
    LET later == {k \in TopCommas(s) : k >= from}
    IN  IF later = {} THEN <<SubSeq(s, from, Len(s))>>
        ELSE LET k == CHOOSE c \in later : \A d \in later : c <= d
             IN  <<SubSeq(s, from, k - 1)>> \o SegmentsFrom(s, k + 1)

Segments(s) == SegmentsFrom(s, 1)

\* a segment without the whitespace around it and without one closing `;`
Stripped(seg) == TrimSuffix(TrimSpace(seg), <<";">>)

\* C21 as stated: one element per top-level segment that does not trim to
\* the empty string, in source order; commas inside nested containers or
\* quotes do not split, and a `;` never splits
C21_ElementPerNonEmptySegment ==
    (pc \in {"parsed", "done"} /\ Balanced(ArrayContent)) =>
        LET kept == SelectSeq(Segments(ArrayContent), LAMBDA seg : TrimSpace(seg) # <<>>)
        IN  /\ value.type = "array"
            /\ Len(value.Values) = Len(kept)

\* C21, amended: one element per top-level segment that is not empty once
\* it is trimmed and one closing `;` is removed from it, in source order,
\* each the parse of that remainder; commas inside nested containers or
\* quotes do not split, and a `;` never splits
C21_ElementPerStrippedSegment ==
    pc \in {"parsed", "done"} =>
        LET kept == SelectSeq(Segments(ArrayContent), LAMBDA seg : Stripped(seg) # <<>>)
        IN  /\ value.type = "array"
            /\ value.Values
                   = [k \in 1..Len(kept) |-> parseValueWithConfig(Stripped(kept[k]), config)]

\* an array with a nested array, a quoted comma and a doubled comma was
\* parsed into its three elements
C21_Witness ==
    /\ pc = "parsed"
    /\ input = <<"(", "(", ")", ",", " ", "(", "a", ",", " ", "b", ")", ",", " ", "(", ")", ")">>
    /\ Len(value.Values) = 3
    /\ value.Values[2] = ArrayValue(<<StringValue(<<"a">>), StringValue(<<"b">>)>>)

(***************************************************************************)
(* SpecTail: parseDictWithConfig on a dictionary whose last entry is       *)
(* written with and without its closing `;`                                *)
(***************************************************************************)
MaxValueLen == 3

ValueAlphabet == {"a", ";", " ", "(", ")", Q, BS}

\* value texts of the tests that are longer than MaxValueLen
NamedValues ==
    { <<"(", "a", ",", " ", "b", ")">>, <<"{", "b", " ", "=", " ", "1", ";", "}">>, <<"{",
          "b", " ", "=", " ", "1", ";", " ", "c", " ", "=", " ", "(", "x", ")", ";",
          "}">>, <<Q, "x", ";", " ", "y", Q>>,
      <<Q, "x", BS, Q, ";", Q>> }

ValueTexts == (SeqsUpTo(ValueAlphabet, MaxValueLen) \cup NamedValues) \ {<<>>}

\* what is written before the last entry
TailPrefixes == { <<>>, <<"c", " ", "=", " ", "1", ";", " ">> }

TailKeys == { KeyA, WriteString(KeySpaced) }

\* the dictionary text: the prefix, the last entry and, if asked for, its `;`
TailText(t, semi) ==
    <<"{">> \o t.prefix \o t.key \o <<" ", "=", " ">> \o t.text
    \o (IF semi THEN <<";">> ELSE <<>>) \o <<"}">>

InitTail ==
    /\ pc = "start"
    /\ \E p \in TailPrefixes, k \in TailKeys, v \in ValueTexts, semi \in BOOLEAN :
           /\ doc = [kind |-> "tail", prefix |-> p, key |-> k, text |-> v, semi |-> semi]
           /\ input = TailText(doc, semi)
    /\ config = NoFilters
    /\ sc = NoScan
    /\ value = NilValue
    /\ output = <<>>
    /\ verdict = "none"

NextTail ==
    \/ Parse
    \/ Render

SpecTail == InitTail /\ [][NextTail]_vars

\* the value text ends inside an escape: a `;` after it would be escaped
EndsInEscape(v) == Escaped(v \o <<";">>, Len(v) + 1)

OneValue(v) == \A k \in 1..Len(v) : (v[k] = ";" /\ Plain(v, k)) => DepthAt(v, k) > 0

RECURSIVE DictsOf(_)
\* the Dicts of a Value tree, at every depth
DictsOf(v) ==
    CASE v.type = "dict" ->
           {v} \cup UNION {DictsOf(v.Values[k]) : k \in DOMAIN v.Values}
      [] v.type = "array" -> UNION {DictsOf(v.Values[k]) : k \in 1..Len(v.Values)}
      [] OTHER -> {}

\* C23: for every Dict produced by the parser, every key of the mapping
\* occurs in the ordered key list and every entry of the ordered key list
\* is a key of the mapping; a non-empty mapping has a non-empty order, so
\* rendering ranges over the ordered key list and never over the map
C23_OrderCoversMapping ==
    pc \in {"parsed", "done"} =>
        \A d \in DictsOf(value) :
            /\ {d.Order[k] : k \in 1..Len(d.Order)} = DOMAIN d.Values
            /\ (DOMAIN d.Values # {} => Len(d.Order) > 0)
            /\ (DOMAIN d.Values # {} => RenderKeys(d) = d.Order)

\* a dictionary whose second entry has an empty key and an empty text as
\* its value was parsed and rendered
C23_Witness ==
    /\ pc = "done"
    /\ input = <<"{", "a", " ", "=", " ", ";", "=", " ", ";", "}">>
    /\ value.type = "dict"
    /\ Len(value.Order) = 2
    /\ DOMAIN value.Values = {KeyA, <<>>}

\* C24: every Dict at any depth of the tree returned by
\* parseValueWithConfig(input, c), the dicts nested inside arrays and inside
\* other dicts included, stores exactly the configuration c
C24_ConfigAtEveryDepth ==
    pc \in {"parsed", "done"} => \A d \in DictsOf(value) : d.config = config

\* under the configuration of every filter, a dictionary inside a
\* dictionary inside the outermost dictionary was parsed
C24_Witness ==
    /\ pc = "parsed"
    /\ config = AllFilters
    /\ value.type = "dict"
    /\ \E k \in DOMAIN value.Values :
           /\ value.Values[k].type = "dict"
           /\ \E j \in DOMAIN value.Values[k].Values :
                  /\ value.Values[k].Values[j].type = "dict"
                  /\ value.Values[k].Values[j].config = AllFilters

(***************************************************************************)
(* SpecSplit: the -split branch of main, one step for `defaults domains`,  *)
(* one for each name of its list, one for the report                       *)
(***************************************************************************)
\* the largest number of names `defaults domains` prints
MaxDomains == 2

\* names of domains: with a dot, with a hyphen, plain, and the empty name
DomainNames == { <<"a", ".", "b">>, <<"a", "-", "b">>, <<"c">>, <<>> }

DomainLists == UNION { [1..n -> DomainNames] : n \in 0..MaxDomains }

\* what `defaults domains` prints for the names
DomainsOutput(names) == Join(names, <<",", " ">>) \o <<NL>>

\* property lists of domains: empty, one entry, only a binary blob, only
\* an entry under a timestamp key
DomainDocs ==
    { DictDoc(<<>>, <<>>),
      DictDoc(<<KeyA>>, <<Bare(<<"1">>)>>),
      DictDoc(<<KeyA>>, <<Blob(";")>>),
      DictDoc(<<<<"U", "p", "d", "a", "t", "e", "D", "a", "t", "e">>>>, <<Bare(<<"1">>)>>) }

\* what `defaults read <domain>` can give: an error, a text with a line
\* beyond the scanner's buffer, the text of a property list, or no text
DomainReads ==
    { [kind |-> "error"], [kind |-> "long"] }
    \cup { [kind |-> "text", text |-> WriteDoc(d, "pretty", 0) \o <<NL>>] : d \in DomainDocs }
    \cup { [kind |-> "text", text |-> <<>>] }

\* main.go 1017 and 808-823: the conversion of each text under each
\* configuration
DomainParsed ==
    [c \in {NoFilters, AllFilters} |->
        [r \in {x \in DomainReads : x.kind = "text"} |->
            parseValueWithConfig(ReadInput(r.text), c)]]

RECURSIVE SplitText(_, _)
\* strings.Split(s, sep) for a non-empty sep of any length
SplitText(s, sep) ==
    IF ~Contains(s, sep) THEN <<s>>
    ELSE LET k == CHOOSE k \in 0..(Len(s) - Len(sep)) :
                      /\ SubSeq(s, k + 1, k + Len(sep)) = sep
                      /\ \A j \in 0..(k - 1) : SubSeq(s, j + 1, j + Len(sep)) # sep
         IN  <<SubSeq(s, 1, k)>> \o SplitText(SubSeq(s, k + Len(sep) + 1, Len(s)), sep)

\* main.go 851-860
sanitizeFilename(key) ==
    LET trimmed == TrimChar(key, Q)
        hyphens == ReplaceAll(trimmed, <<".">>, <<"-">>)
        spaces  == ReplaceAll(hyphens, <<" ">>, <<"_">>)
    IN  ReplaceAll(spaces, <<"/">>, <<"_">>)

\* main.go 1030: the base name of the file of a domain
DomainFile(domain) == sanitizeFilename(domain) \o <<".", "n", "i", "x">>

\* main.go 990-997: `defaults domains`; its failure ends the run
ListDomains ==
    /\ pc = "split"
    /\ IF sc.listOk
       THEN /\ sc' = [sc EXCEPT !.domains = SplitText(DomainsOutput(doc.names), <<",", " ">>)]
            /\ pc' = "domains"
            /\ UNCHANGED verdict
       ELSE /\ verdict' = "exit 1"
            /\ pc' = "exited"
            /\ UNCHANGED sc
    /\ UNCHANGED <<input, doc, config, value, output>>

\* mutant: a domain that fails ends the loop
AfterFailure_Stops(st) == Len(st.domains)

\* main.go 1013, 1020 and 1034: `continue` goes on with the next name
AfterFailure(st) == st.i + 1

\* main.go 1024: the result is taken for empty
EmptyResult(nixResult) ==
    TrimSpace(nixResult) = <<"{", "}">> \/ TrimSpace(nixResult) = <<>>

\* main.go 1002-1038: one turn of the loop over the names
DomainStep ==
    /\ pc = "domains"
    /\ sc.i < Len(sc.domains)
    /\ \E read \in DomainReads, writeOk \in BOOLEAN :
         LET domain    == TrimSpace(sc.domains[sc.i + 1])
             text      == IF read.kind = "text" THEN read.text ELSE <<>>
             parsed    == DomainParsed[config][read]
             nixResult == ToNix(parsed, 0)
             ran       == [sc EXCEPT !.attempted = Append(@, domain)]
         IN  IF domain = <<>>
             THEN /\ sc' = [sc EXCEPT !.i = @ + 1, !.last = "no name"]
                  /\ UNCHANGED <<input, value, output>>
             ELSE IF read.kind = "error"
             THEN /\ sc' = [ran EXCEPT !.i = AfterFailure(sc), !.last = "read error",
                                       !.errorDomains = Append(@, domain)]
                  /\ UNCHANGED <<input, value, output>>
             ELSE IF read.kind = "long"
             THEN /\ sc' = [ran EXCEPT !.i = AfterFailure(sc), !.last = "convert error",
                                       !.errorDomains = Append(@, domain)]
                  /\ UNCHANGED <<input, value, output>>
             ELSE /\ input' = ReadInput(text)
                  /\ value' = parsed
                  /\ output' = nixResult
                  /\ IF EmptyResult(nixResult)
                     THEN sc' = [ran EXCEPT !.i = @ + 1, !.last = "skipped",
                                            !.skippedDomains = Append(@, domain)]
                     ELSE IF ~writeOk
                     THEN sc' = [ran EXCEPT !.i = AfterFailure(sc), !.last = "write failed"]
                     ELSE sc' = [ran EXCEPT !.i = @ + 1, !.last = "written",
                                            !.successCount = @ + 1,
                                            !.files = Append(@, [name |-> DomainFile(domain),
                                                                 domain |-> domain])]
    /\ UNCHANGED <<pc, doc, config, verdict>>

\* main.go 1041-1055: the report and the exit status
SplitReport ==
    /\ pc = "domains"
    /\ sc.i >= Len(sc.domains)
    /\ verdict' = IF sc.successCount = 0 THEN "exit 1" ELSE "exit 0"
    /\ pc' = "exited"
    /\ UNCHANGED <<input, doc, config, sc, value, output>>

InitSplit ==
    /\ pc = "split"
    /\ input = <<>>
    /\ \E names \in DomainLists : doc = [kind |-> "domains", names |-> names]
    /\ config \in {NoFilters, AllFilters}
    /\ \E listOk \in BOOLEAN :
           sc = [loop |-> "split", listOk |-> listOk, domains |-> <<>>, i |-> 0,
                 successCount |-> 0, skippedDomains |-> <<>>, errorDomains |-> <<>>,
                 attempted |-> <<>>, files |-> <<>>, last |-> "none"]
    /\ value = NilValue
    /\ output = <<>>
    /\ verdict = "none"

NextSplit ==
    \/ ListDomains
    \/ DomainStep
    \/ SplitReport

SpecSplit == InitSplit /\ [][NextSplit]_vars

\* the names of the list that name a domain
NamedDomains == SelectSeq(doc.names, LAMBDA n : TrimSpace(n) # <<>>)

\* C25: in split mode a domain whose read, conversion or write fails does
\* not stop the loop: when the run ends after the list was obtained, the
\* domains that were read are the domains of the list, each once and in
\* order; the exit status is 1 exactly when no file was written, else 0
C25_SplitGoesOn ==
    pc = "exited" =>
        /\ sc.listOk => sc.attempted = NamedDomains
        /\ verdict \in {"exit 0", "exit 1"}
        /\ verdict = "exit 1" <=> sc.files = <<>>

\* a run of two domains where the first failed and the second was written
C25_Witness ==
    /\ pc = "exited"
    /\ verdict = "exit 0"
    /\ Len(sc.attempted) = 2
    /\ sc.errorDomains = <<sc.attempted[1]>>
    /\ Len(sc.files) = 1
    /\ sc.files[1].domain = sc.attempted[2]

\* no entry of the parsed dictionary is rendered: it is empty, or each of
\* its entries is a binary blob or is dropped by an enabled filter
ShowsNothing(v) ==
    v.type = "dict" /\ \A key \in DOMAIN v.Values : EntrySkipped(v, key)

\* C26: in split mode a domain whose conversion leaves no entry to show is
\* counted as skipped and no file is written for it
C26_NothingToShowIsSkipped ==
    (/\ sc.last \in {"skipped", "write failed", "written"}
     /\ ShowsNothing(value))
        => sc.last = "skipped"

\* C27: the nesting-depth counter of the array scanner and of the dict
\* scanner is never negative at any point of a scan
C27_DepthNeverNegative ==
    pc \in {"array", "dict"} => sc.depth >= 0

\* every configuration of the three filters
Configs == { ParseConfig(d, s, u) : d \in BOOLEAN, s \in BOOLEAN, u \in BOOLEAN }

\* more enables at least the filters of less
EnablesAtLeast(more, less) ==
    /\ less.NoDates => more.NoDates
    /\ less.NoState => more.NoState
    /\ less.NoUUIDs => more.NoUUIDs

RECURSIVE SameStructure(_, _)
\* the trees have the same containers, keys and key order, and a scalar
\* of the first is in the second the same scalar or a Skip
SameStructure(t, u) ==
    CASE t.type = "dict" ->
           /\ u.type = "dict"
           /\ u.Order = t.Order
           /\ DOMAIN u.Values = DOMAIN t.Values
           /\ \A key \in DOMAIN t.Values : SameStructure(t.Values[key], u.Values[key])
      [] t.type = "array" ->
           /\ u.type = "array"
           /\ Len(u.Values) = Len(t.Values)
           /\ \A k \in 1..Len(t.Values) : SameStructure(t.Values[k], u.Values[k])
      [] t.type = "string" -> u.type = "skip" \/ u = t
      [] OTHER -> u = t

RECURSIVE ShownPaths(_, _)
\* the key paths of the tree that ToNix renders, each scalar with its text
ShownPaths(v, path) ==
    CASE v.type = "dict" ->
           {[path |-> path, text |-> <<"{">>]}
           \cup UNION { ShownPaths(v.Values[key], Append(path, key)) :
                          key \in {k \in DOMAIN v.Values : ~EntrySkipped(v, k)} }
      [] v.type = "array" ->
           {[path |-> path, text |-> <<"[">>]}
           \cup UNION { ShownPaths(v.Values[k], Append(path, <<"#">>)) :
                          k \in 1..Len(v.Values) }
      [] v.type = "string" -> {[path |-> path, text |-> StringValueToNix(v.Value)]}
      [] OTHER -> {}

\* the lines of a rendering that hold a scalar
ScalarLines(text) ==
    LET lines == Split(text, NL)
    IN  { line \in {lines[k] : k \in 1..Len(lines)} :
            LET t == TrimSuffix(line, <<";">>)
            IN  t # <<>> /\ t[Len(t)] \notin {"{", "}", "[", "]"} }

\* C28: for every configuration that enables at most the filters of the
\* one in use, the two parsed trees have the same containers, keys and key
\* order, the key paths rendered with more filters are among those
\* rendered with fewer, and each retained scalar is rendered the same
C28_FiltersOnlyRemove ==
    pc = "done" =>
        \A c \in Configs :
            EnablesAtLeast(config, c) =>
                LET fewer == parseValueWithConfig(input, c)
                IN  /\ SameStructure(fewer, value)
                    /\ ShownPaths(value, <<>>) \subseteq ShownPaths(fewer, <<>>)
                    /\ ScalarLines(output) \subseteq ScalarLines(ToNix(fewer, 0))

\* a conversion with every filter on that dropped an entry and kept one
C28_Witness ==
    /\ pc = "done"
    /\ config = AllFilters
    /\ value.type = "dict"
    /\ \E key \in DOMAIN value.Values : EntrySkipped(value, key)
    /\ \E key \in DOMAIN value.Values :
           ~EntrySkipped(value, key) /\ value.Values[key].type = "string"
    /\ ShownPaths(value, <<>>) # ShownPaths(parseValueWithConfig(input, NoFilters), <<>>)

\* C29: in split mode two different domains are never written to the same
\* output file
C29_OneFilePerDomain ==
    \A j, k \in 1..Len(sc.files) :
        sc.files[j].name = sc.files[k].name => sc.files[j].domain = sc.files[k].domain

\* C30: every invocation runs one of the three modes or exits with a
\* non-zero status: none exits with status 0 having delivered no conversion
C30_ExitZeroMeansConverted ==
    (pc = "exited" /\ verdict = "exit 0") => (sc.wrote # <<>> \/ sc.printed)

====
